---- MODULE Spec2Model ----
(***************************************************************************)
(* Verification model of monkey-rs: the bytecode encoding (src/code), the  *)
(* compiler (src/compiler), the tree-walking evaluator (src/eval) and the  *)
(* stack virtual machine (src/vm).                                         *)
(*                                                                         *)
(* The VM is a state machine: one action per arm of the 'match op' in      *)
(* VM::run, plus the loop exit.  The compiler and the evaluator are pure   *)
(* functions of the AST and are modelled as recursive operators.           *)
(*                                                                         *)
(* Representation choices                                                  *)
(*   - a byte sequence Vec<u8> is a TLA+ sequence; byte offset i of the    *)
(*     code is element i + 1 of the sequence (see Byte);                   *)
(*   - a Rust String is a sequence of one-character strings (ASCII only,   *)
(*     so that byte length and character count agree);                     *)
(*   - the globals array (65536 slots, all Null at construction) is kept   *)
(*     as a function on the indices written so far, Null elsewhere;        *)
(*   - a Rust panic (index out of range, usize underflow) is the outcome   *)
(*     "panic", distinct from an Err(..) returned by run().                *)
(***************************************************************************)
EXTENDS Integers, Sequences, FiniteSets, TLC

(***************************************************************************)
(* Program constants                                                       *)
(***************************************************************************)
STACK_SIZE == 2048
GLOBALS_SIZE == 65536
MAX_FRAMES == 1024

(***************************************************************************)
(* src/code/mod.rs: opcodes (enum discriminants, in declaration order)     *)
(***************************************************************************)
OpConstant == 0
OpPop == 1
OpAdd == 2
OpSub == 3
OpMul == 4
OpDiv == 5
OpTrue == 6
OpFalse == 7
OpEqual == 8
OpNotEqual == 9
OpGreaterThan == 10
OpMinus == 11
OpBang == 12
OpJumpNotTruthy == 13
OpJump == 14
OpNull == 15
OpGetGlobal == 16
OpSetGlobal == 17
OpArray == 18
OpHash == 19
OpIndex == 20
OpSliceIndex == 21
OpCall == 22
OpReturnValue == 23
OpReturn == 24
OpGetLocal == 25
OpSetLocal == 26
\* The four opcodes below are matched by VM::run but their declaration is
\* not part of src/code/mod.rs; they follow OpSetLocal.
OpGetBuiltin == 27
OpClosure == 28
OpGetFree == 29
OpCurrentClosure == 30

\* Operand widths of the opcodes that VM::run matches but src/code/mod.rs
\* does not declare (the opcode table of the specification, section 4.4)
operand_widths_ext(op) ==
    CASE op = OpGetBuiltin -> <<1>>
      [] op = OpGetFree -> <<1>>
      [] op = OpClosure -> <<2, 1>>
      [] OTHER -> <<>>

\* Opcode::lookup, operand_widths
operand_widths(op) ==
    CASE op \in {OpConstant, OpJumpNotTruthy, OpJump, OpGetGlobal,
                 OpSetGlobal, OpArray, OpHash} -> <<2>>
      [] op \in {OpCall, OpGetLocal, OpSetLocal} -> <<1>>
      [] op > OpSetLocal -> operand_widths_ext(op)
      [] OTHER -> <<>>

\* impl TryFrom<u8> for Opcode: TRUE when the byte is a declared opcode
try_from_ok(value) == value >= OpConstant /\ value <= OpCurrentClosure

\* Sum of a sequence of widths
RECURSIVE SumSeq(_)
SumSeq(s) == IF s = <<>> THEN 0 ELSE Head(s) + SumSeq(Tail(s))

\* One operand encoded big-endian on 'width' bytes (make, the match on width)
EncodeOperand(width, operand) ==
    IF width = 2
    THEN <<(operand \div 256) % 256, operand % 256>>
    ELSE <<operand % 256>>

\* make(op, operands): the opcode byte followed by the operands; operands
\* that are not supplied leave their bytes at 0 (vec![0; instruction_len]).
RECURSIVE MakeOperands(_, _)
MakeOperands(widths, operands) ==
    IF widths = <<>> THEN <<>>
    ELSE IF operands = <<>>
         THEN [i \in 1..SumSeq(widths) |-> 0]
         ELSE EncodeOperand(Head(widths), Head(operands))
              \o MakeOperands(Tail(widths), Tail(operands))

make(op, operands) == <<op>> \o MakeOperands(operand_widths(op), operands)

\* The byte at offset i (0-based) of an instruction sequence
Byte(ins, i) == ins[i + 1]

\* read_u16 that takes the low byte first
read_u16_low_first(ins, i) == Byte(ins, i) + Byte(ins, i + 1) * 256

\* read_u16(&ins[i..]): big-endian u16 at offset i
read_u16(ins, i) == Byte(ins, i) * 256 + Byte(ins, i + 1)

\* read_operands(def, ins): one operand per declared width, read from
\* offset 0 of ins, and the number of bytes read
RECURSIVE ReadOperands(_, _, _)
ReadOperands(widths, ins, offset) ==
    IF widths = <<>> THEN [operands |-> <<>>, offset |-> offset]
    ELSE LET operand == IF Head(widths) = 2 THEN read_u16(ins, offset)
                        ELSE Byte(ins, offset)
             rest == ReadOperands(Tail(widths), ins, offset + Head(widths))
         IN  [operands |-> <<operand>> \o rest.operands, offset |-> rest.offset]

read_operands(widths, ins) == ReadOperands(widths, ins, 0)

\* Concatenation of a sequence of instructions (the tests' concat of make!)
RECURSIVE Concat(_)
Concat(ss) == IF ss = <<>> THEN <<>> ELSE Head(ss) \o Concat(Tail(ss))

(***************************************************************************)
(* src/object/mod.rs: runtime objects                                      *)
(***************************************************************************)
Null == [t |-> "Null"]
Integer(v) == [t |-> "Integer", i |-> v]
Boolean(v) == [t |-> "Boolean", b |-> v]
String(v) == [t |-> "String", s |-> v]
Array(v) == [t |-> "Array", a |-> v]
Hash(v) == [t |-> "Hash", h |-> v]
BuiltInFunction(name) == [t |-> "BuiltInFunction", name |-> name]
CompiledFunction(ins, nl, np) ==
    [t |-> "CompiledFunction", instructions |-> ins, num_locals |-> nl,
     num_parameters |-> np]
Closure(func, free) == [t |-> "Closure", func |-> func, free |-> free]

TRUE_OBJ == Boolean(TRUE)
FALSE_OBJ == Boolean(FALSE)

\* Object::is_truthy
is_truthy(obj) ==
    CASE obj.t = "Boolean" -> obj.b
      [] obj.t = "Null" -> FALSE
      [] OTHER -> TRUE

\* Object::type_name
type_name(obj) ==
    CASE obj.t = "Integer" -> "INTEGER"
      [] obj.t = "Boolean" -> "BOOLEAN"
      [] obj.t = "String" -> "STRING"
      [] obj.t = "Array" -> "ARRAY"
      [] obj.t = "Hash" -> "HASH"
      [] obj.t = "BuiltInFunction" -> "BUILTIN"
      [] obj.t = "CompiledFunction" -> "COMPILED_FUNCTION"
      [] obj.t = "Closure" -> "CLOSURE"
      [] OTHER -> "NULL"

\* impl From<Object> for Option<HashKey>: TRUE when the object is hashable
is_hash_key(obj) == obj.t \in {"Integer", "Boolean", "String"}

(***************************************************************************)
(* src/vm/mod.rs: state of the virtual machine                             *)
(***************************************************************************)
VARIABLES
    constants,      \* VM.constants: sequence of objects (index i is element i + 1)
    stack,          \* VM.stack: function 0 .. STACK_SIZE - 1 -> object
    sp,             \* VM.sp
    globals,        \* VM.globals: the slots written so far (Null elsewhere)
    frames,         \* VM.frames: sequence of Frame
    frames_index,   \* VM.frames_index
    status,         \* "running" inside run(); "ok", "error", "panic" once it ended
    error,          \* the message of the Err returned by run()
    prog,           \* the input: the program run, or the lines the REPL has read
    compiler,       \* the Compiler that the REPL keeps across its inputs
    calls,          \* history: one record per active closure call
    last_popped,    \* history: the value returned by the most recent pop()
    last_op         \* history: the opcode executed by the last step (-1: none)

vars == <<constants, stack, sp, globals, frames, frames_index, status, error,
          prog, compiler, calls, last_popped, last_op>>

\* frame.rs, Frame::new
Frame(cl, base_pointer) == [cl |-> cl, ip |-> 0, base_pointer |-> base_pointer]

\* The mutable part of the VM, as one record that the helpers below thread
\* through.  wr is history: the stack indices written by the current step.
Machine ==
    [stack |-> stack, sp |-> sp, globals |-> globals, frames |-> frames,
     frames_index |-> frames_index, popped |-> last_popped, wr |-> {}]

\* Outcomes of a helper: Ok(..), Err(anyhow!(..)) or a panic, with the
\* machine as the helper left it, a value, and the local 'ip' of run().
Ok(m) == [res |-> "ok", msg |-> "", m |-> m, val |-> Null, ip |-> 0]
OkV(m, v) == [res |-> "ok", msg |-> "", m |-> m, val |-> v, ip |-> 0]
Err(m, msg) == [res |-> "error", msg |-> msg, m |-> m, val |-> Null, ip |-> 0]
Panic(m) == [res |-> "panic", msg |-> "", m |-> m, val |-> Null, ip |-> 0]
WithIp(r, ip) == [r EXCEPT !.ip = ip]

\* self.stack[i] = obj (panics when i is out of range)
stack_set(m, i, obj) ==
    IF i < 0 \/ i >= STACK_SIZE THEN Panic(m)
    ELSE Ok([m EXCEPT !.stack[i] = obj, !.wr = @ \cup {i}])

\* push with the test 'sp > STACK_SIZE'
push_off_by_one(m, obj) ==
    IF m.sp > STACK_SIZE THEN Err(m, "stack overflow")
    ELSE IF m.sp >= STACK_SIZE THEN Panic(m)
    ELSE Ok([m EXCEPT !.stack[m.sp] = obj, !.sp = @ + 1, !.wr = @ \cup {m.sp}])

\* VM::push
push(m, obj) ==
    IF m.sp >= STACK_SIZE
    THEN Err(m, "stack overflow")
    ELSE Ok([m EXCEPT !.stack[m.sp] = obj, !.sp = @ + 1, !.wr = @ \cup {m.sp}])

\* VM::pop
pop(m) ==
    IF m.sp = 0
    THEN Err(m, "stack underflow")
    ELSE IF m.sp - 1 >= STACK_SIZE
         THEN Panic([m EXCEPT !.sp = @ - 1])
         ELSE OkV([m EXCEPT !.sp = @ - 1, !.popped = m.stack[m.sp - 1]],
                  m.stack[m.sp - 1])

\* VM::last_popped_stack_elem (panics when sp is out of range)
last_popped_stack_elem == stack[sp]

\* VM::current_frame (the index frames_index - 1 must be in range)
current_frame_ok(m) == m.frames_index >= 1 /\ m.frames_index <= Len(m.frames)
current_frame(m) == m.frames[m.frames_index]

\* push_frame with the test 'frames_index > MAX_FRAMES'
push_frame_off_by_one(m, frame) ==
    IF m.frames_index > MAX_FRAMES
    THEN Err(m, "frame overflow")
    ELSE Ok([m EXCEPT !.frames = Append(@, frame), !.frames_index = @ + 1])

\* VM::push_frame
push_frame(m, frame) ==
    IF m.frames_index >= MAX_FRAMES
    THEN Err(m, "frame overflow")
    ELSE Ok([m EXCEPT !.frames = Append(@, frame), !.frames_index = @ + 1])

\* VM::pop_frame; val is the popped frame
pop_frame(m) ==
    IF m.frames_index = 0 THEN Panic(m)
    ELSE IF m.frames = <<>>
         THEN Err([m EXCEPT !.frames_index = @ - 1], "frame underflow")
         ELSE OkV([m EXCEPT !.frames_index = @ - 1,
                            !.frames = SubSeq(@, 1, Len(@) - 1)],
                  m.frames[Len(m.frames)])


\* '?': continue with F on Ok, return the Err (or the panic) otherwise
Bind(r, F(_)) == IF r.res = "ok" THEN F(r) ELSE r

\* Rust's integer division truncates toward zero
TruncDiv(a, b) ==
    IF (a >= 0) = (b > 0)
    THEN (IF a >= 0 THEN a ELSE -a) \div (IF b >= 0 THEN b ELSE -b)
    ELSE -((IF a >= 0 THEN a ELSE -a) \div (IF b >= 0 THEN b ELSE -b))

\* VM::exec_binary_int_op (a zero divisor makes '/' panic)
exec_binary_int_op(m, op, left, right) ==
    CASE op = OpAdd -> push(m, Integer(left + right))
      [] op = OpSub -> push(m, Integer(left - right))
      [] op = OpMul -> push(m, Integer(left * right))
      [] op = OpDiv -> IF right = 0 THEN Panic(m)
                       ELSE push(m, Integer(TruncDiv(left, right)))
      [] OTHER -> Err(m, "unknown integer operator: " \o ToString(op))

\* VM::exec_binary_string_op
exec_binary_string_op(m, op, left, right) ==
    IF op = OpAdd THEN push(m, String(left \o right))
    ELSE Err(m, "unknown string operator: " \o ToString(op))

\* VM::exec_binary_op
exec_binary_op(m, op) ==
    Bind(pop(m), LAMBDA r1 : Bind(pop(r1.m), LAMBDA r2 :
        LET right == r1.val
            left == r2.val
        IN  CASE left.t = "Integer" /\ right.t = "Integer" ->
                   exec_binary_int_op(r2.m, op, left.i, right.i)
              [] left.t = "String" /\ right.t = "String" ->
                   exec_binary_string_op(r2.m, op, left.s, right.s)
              [] OTHER ->
                   Err(r2.m, "unsupported types for binary operation: "
                             \o type_name(left) \o " " \o type_name(right))))

\* VM::exec_comparison_int_op
exec_comparison_int_op(m, op, left, right) ==
    CASE op = OpEqual -> push(m, Boolean(left = right))
      [] op = OpNotEqual -> push(m, Boolean(left # right))
      [] op = OpGreaterThan -> push(m, Boolean(left > right))
      [] OTHER -> Err(m, "unknown integer operator: " \o ToString(op))

\* VM::exec_comparison
exec_comparison(m, op) ==
    Bind(pop(m), LAMBDA r1 : Bind(pop(r1.m), LAMBDA r2 :
        LET right == r1.val
            left == r2.val
        IN  CASE left.t = "Integer" /\ right.t = "Integer" ->
                   exec_comparison_int_op(r2.m, op, left.i, right.i)
              [] left.t = "Boolean" /\ right.t = "Boolean" ->
                   (CASE op = OpEqual -> push(r2.m, Boolean(left.b = right.b))
                      [] op = OpNotEqual -> push(r2.m, Boolean(left.b # right.b))
                      [] OTHER -> Err(r2.m, "unknown boolean operator: "
                                            \o ToString(op)))
              [] OTHER ->
                   Err(r2.m, "unsupported types for comparison: "
                             \o type_name(left) \o " " \o type_name(right))))

\* VM::exec_bang_op
exec_bang_op(m) ==
    Bind(pop(m), LAMBDA r :
        CASE r.val.t = "Boolean" -> push(r.m, Boolean(~r.val.b))
          [] r.val.t = "Null" -> push(r.m, TRUE_OBJ)
          [] OTHER -> push(r.m, FALSE_OBJ))

\* VM::exec_minus_op
exec_minus_op(m) ==
    Bind(pop(m), LAMBDA r :
        IF r.val.t = "Integer" THEN push(r.m, Integer(-r.val.i))
        ELSE Err(r.m, "unsupported type for negation: " \o type_name(r.val)))

\* The slice self.stack[start..end] is in range
slice_ok(start, end) == 0 <= start /\ start <= end /\ end <= STACK_SIZE

\* self.stack[start..end] as a sequence
stack_slice(m, start, end) == [k \in 1..(end - start) |-> m.stack[start + k - 1]]

\* VM::build_array
build_array(m, start_index, end_index) ==
    IF ~slice_ok(start_index, end_index) THEN Panic(m)
    ELSE OkV(m, Array(stack_slice(m, start_index, end_index)))

\* The pairs of build_hash, inserted in order (a later key replaces an
\* earlier equal key); "bad" holds the first unhashable key, if any
RECURSIVE hash_pairs(_, _)
hash_pairs(elems, acc) ==
    IF Len(elems) < 2 THEN [bad |-> <<>>, h |-> acc]
    ELSE IF ~is_hash_key(elems[1]) THEN [bad |-> <<elems[1]>>, h |-> acc]
         ELSE hash_pairs(SubSeq(elems, 3, Len(elems)),
                         (elems[1] :> elems[2]) @@ acc)

\* VM::build_hash
build_hash(m, start_index, end_index) ==
    IF ~slice_ok(start_index, end_index) THEN Panic(m)
    ELSE LET hp == hash_pairs(stack_slice(m, start_index, end_index), <<>>)
         IN  IF hp.bad # <<>>
             THEN Err(m, "unusable as hash key: " \o type_name(hp.bad[1]))
             ELSE OkV(m, Hash(hp.h))

\* VM::exec_array_index
exec_array_index(m, elements, index) ==
    LET idx == IF index < 0 THEN Len(elements) + index ELSE index
    IN  IF idx >= 0 /\ idx < Len(elements) THEN push(m, elements[idx + 1])
        ELSE push(m, Null)

\* VM::exec_hash_index
exec_hash_index(m, pairs, index) ==
    IF ~is_hash_key(index)
    THEN Err(m, "unusable as hash key: " \o type_name(index))
    ELSE IF index \in DOMAIN pairs THEN push(m, pairs[index])
         ELSE push(m, Null)

\* VM::exec_string_index
exec_string_index(m, string, index) ==
    LET idx == IF index < 0 THEN Len(string) + index ELSE index
    IN  IF idx >= 0 /\ idx < Len(string) THEN push(m, String(<<string[idx + 1]>>))
        ELSE push(m, Null)

\* VM::exec_index_op
exec_index_op(m, left, index) ==
    CASE left.t = "Array" /\ index.t = "Integer" ->
           exec_array_index(m, left.a, index.i)
      [] left.t = "Hash" -> exec_hash_index(m, left.h, index)
      [] left.t = "String" /\ index.t = "Integer" ->
           exec_string_index(m, left.s, index.i)
      [] OTHER -> Err(m, "index operator not supported: " \o type_name(left)
                         \o "[" \o type_name(index) \o "]")

\* One bound of a slice after 'if b < 0 { len + b } else if b > len { len }'
slice_bound(b, len) == IF b < 0 THEN len + b ELSE IF b > len THEN len ELSE b

\* elements.get(start as usize..stop as usize): the sub-sequence, or <<>>
\* when the range is not inside the sequence (a negative bound cast to
\* usize is larger than any length)
get_range(seq, start, stop) ==
    IF 0 <= start /\ start <= stop /\ stop <= Len(seq)
    THEN SubSeq(seq, start + 1, stop)
    ELSE <<>>

\* VM::exec_array_slice_index and VM::exec_string_slice_index; wrap builds
\* the result object (Array or String) from the selected elements
exec_seq_slice_index(m, seq, start, stop, wrap(_)) ==
    IF start.t \notin {"Integer", "Null"}
    THEN Err(m, "slice start must be an integer")
    ELSE IF stop.t \notin {"Integer", "Null"}
    THEN Err(m, "slice stop must be an integer")
    ELSE LET s0 == IF start.t = "Null" THEN 0 ELSE start.i
             e0 == IF stop.t = "Null" THEN Len(seq) ELSE stop.i
         IN  push(m, wrap(get_range(seq, slice_bound(s0, Len(seq)),
                                    slice_bound(e0, Len(seq)))))

\* VM::exec_slice_index_op
exec_slice_index_op(m, left, start, stop) ==
    CASE left.t = "Array" -> exec_seq_slice_index(m, left.a, start, stop, Array)
      [] left.t = "String" -> exec_seq_slice_index(m, left.s, start, stop, String)
      [] OTHER -> Err(m, "slice index operator not supported: "
                         \o type_name(left) \o "[" \o type_name(start) \o ":"
                         \o type_name(stop) \o "]")


(***************************************************************************)
(* src/object/builtins.rs                                                  *)
(***************************************************************************)
BUILTINS == <<"len", "puts", "first", "last", "rest", "push">>

\* Outcome of a built-in: Ok(object) or Err(message)
BOk(v) == [res |-> "ok", msg |-> "", val |-> v]
BErr(msg) == [res |-> "error", msg |-> msg, val |-> Null]

wrong_args(got, want) ==
    BErr("wrong number of arguments. got=" \o ToString(got) \o ", want="
         \o ToString(want))

builtin_len(args) ==
    IF Len(args) # 1 THEN wrong_args(Len(args), 1)
    ELSE CASE args[1].t = "String" -> BOk(Integer(Len(args[1].s)))
           [] args[1].t = "Array" -> BOk(Integer(Len(args[1].a)))
           [] OTHER -> BErr("argument to len not supported, got "
                            \o type_name(args[1]))

builtin_first(args) ==
    IF Len(args) # 1 THEN wrong_args(Len(args), 1)
    ELSE IF args[1].t = "Array"
         THEN (IF args[1].a = <<>> THEN BOk(Null) ELSE BOk(args[1].a[1]))
         ELSE BErr("argument to first must be ARRAY, got " \o type_name(args[1]))

builtin_last(args) ==
    IF Len(args) # 1 THEN wrong_args(Len(args), 1)
    ELSE IF args[1].t = "Array"
         THEN (IF args[1].a = <<>> THEN BOk(Null)
               ELSE BOk(args[1].a[Len(args[1].a)]))
         ELSE BErr("argument to last must be ARRAY, got " \o type_name(args[1]))

builtin_rest(args) ==
    IF Len(args) # 1 THEN wrong_args(Len(args), 1)
    ELSE IF args[1].t = "Array"
         THEN (IF args[1].a = <<>> THEN BOk(Null) ELSE BOk(Array(Tail(args[1].a))))
         ELSE BErr("argument to rest must be ARRAY, got " \o type_name(args[1]))

\* push that puts the value in front of the elements
builtin_push_front(args) ==
    IF Len(args) # 2 THEN wrong_args(Len(args), 2)
    ELSE IF args[1].t = "Array"
         THEN BOk(Array(<<args[2]>> \o args[1].a))
         ELSE BErr("argument to push must be ARRAY, got " \o type_name(args[1]))

builtin_push(args) ==
    IF Len(args) # 2 THEN wrong_args(Len(args), 2)
    ELSE IF args[1].t = "Array"
         THEN BOk(Array(Append(args[1].a, args[2])))
         ELSE BErr("argument to push must be ARRAY, got " \o type_name(args[1]))

\* puts prints its arguments (not modelled) and returns Null
builtin_puts(args) == BOk(Null)

\* get_builtin(name) applied to args
builtin(name, args) ==
    CASE name = "len" -> builtin_len(args)
      [] name = "first" -> builtin_first(args)
      [] name = "last" -> builtin_last(args)
      [] name = "rest" -> builtin_rest(args)
      [] name = "push" -> builtin_push(args)
      [] OTHER -> builtin_puts(args)

(***************************************************************************)
(* src/vm/mod.rs: calls and closures                                       *)
(***************************************************************************)
\* call_closure without the reservation of the local slots
call_closure_no_reserve(m, cl, num_args) ==
    IF num_args # cl.func.num_parameters
    THEN Err(m, "wrong number of arguments: want="
                \o ToString(cl.func.num_parameters)
                \o ", got=" \o ToString(num_args))
    ELSE push_frame(m, Frame(cl, m.sp - num_args))

\* call_closure that only refuses too many arguments
call_closure_too_many(m, cl, num_args) ==
    IF num_args > cl.func.num_parameters
    THEN Err(m, "wrong number of arguments: want="
                \o ToString(cl.func.num_parameters)
                \o ", got=" \o ToString(num_args))
    ELSE push_frame([m EXCEPT !.sp = m.sp - num_args + cl.func.num_locals],
                    Frame(cl, m.sp - num_args))

\* VM::call_closure
call_closure(m, cl, num_args) ==
    LET num_locals == cl.func.num_locals
        num_params == cl.func.num_parameters
    IN  IF num_args # num_params
        THEN Err(m, "wrong number of arguments: want=" \o ToString(num_params)
                    \o ", got=" \o ToString(num_args))
        ELSE LET frame == Frame(cl, m.sp - num_args)
             IN  push_frame([m EXCEPT !.sp = frame.base_pointer + num_locals],
                            frame)

\* call_builtin that hands over the callee with the arguments
call_builtin_with_callee(m, name, num_args) ==
    IF ~slice_ok(m.sp - num_args - 1, m.sp) THEN Panic(m)
    ELSE LET args == stack_slice(m, m.sp - num_args - 1, m.sp)
             m1 == [m EXCEPT !.frames[m.frames_index].ip = @ + 1]
             result == builtin(name, args)
         IN  IF result.res # "ok" THEN Err(m1, result.msg)
             ELSE push([m1 EXCEPT !.sp = m1.sp - num_args - 1], result.val)

\* VM::call_builtin
call_builtin(m, name, num_args) ==
    IF ~slice_ok(m.sp - num_args, m.sp) THEN Panic(m)
    ELSE LET args == stack_slice(m, m.sp - num_args, m.sp)
             m1 == [m EXCEPT !.frames[m.frames_index].ip = @ + 1]
             result == builtin(name, args)
         IN  IF result.res # "ok" THEN Err(m1, result.msg)
             ELSE push([m1 EXCEPT !.sp = m1.sp - num_args - 1], result.val)

\* VM::exec_call
exec_call(m, num_args) ==
    LET slot == m.sp - 1 - num_args
    IN  IF slot < 0 \/ slot >= STACK_SIZE THEN Panic(m)
        ELSE LET callee == m.stack[slot]
             IN  CASE callee.t = "Closure" -> call_closure(m, callee, num_args)
                   [] callee.t = "BuiltInFunction" ->
                        call_builtin(m, callee.name, num_args)
                   [] OTHER -> Err(m, "calling non-closure and non-builtin")

\* push_closure without 'self.sp -= num_free'
push_closure_keep_free(m, consts, const_index, num_free) ==
    IF const_index >= Len(consts) THEN Panic(m)
    ELSE LET constant == consts[const_index + 1]
         IN  IF constant.t = "CompiledFunction"
             THEN IF ~slice_ok(m.sp - num_free, m.sp) THEN Panic(m)
                  ELSE push(m, Closure(constant,
                                       stack_slice(m, m.sp - num_free, m.sp)))
             ELSE Err(m, "not a function: " \o type_name(constant))

\* VM::push_closure
push_closure(m, consts, const_index, num_free) ==
    IF const_index >= Len(consts) THEN Panic(m)
    ELSE LET constant == consts[const_index + 1]
         IN  IF constant.t = "CompiledFunction"
             THEN IF ~slice_ok(m.sp - num_free, m.sp) THEN Panic(m)
                  ELSE push([m EXCEPT !.sp = @ - num_free],
                            Closure(constant,
                                    stack_slice(m, m.sp - num_free, m.sp)))
             ELSE Err(m, "not a function: " \o type_name(constant))


(***************************************************************************)
(* src/vm/mod.rs, VM::run: the arms of 'match op'.  Each operator gives    *)
(* the outcome of one arm for the machine m, the instructions ins of the   *)
(* current frame and its ip; the field ip of the outcome is the local      *)
(* variable ip at the end of the arm.                                      *)
(***************************************************************************)
\* The operand bytes ins[ip + 1 .. ip + k] exist (else the read panics)
fits(ins, ip, k) == ip + k < Len(ins)

\* self.globals[i], Null until written
globals_get(m, i) == IF i \in DOMAIN m.globals THEN m.globals[i] ELSE Null

run_OpConstant(m, consts, ins, ip) ==
    IF ~fits(ins, ip, 2) THEN Panic(m)
    ELSE LET const_index == read_u16(ins, ip + 1)
         IN  IF const_index >= Len(consts) THEN Panic(m)
             ELSE WithIp(push(m, consts[const_index + 1]), ip + 2)

run_OpPop(m, ip) == WithIp(pop(m), ip)

run_OpJump(m, ins, ip) ==
    IF ~fits(ins, ip, 2) THEN Panic(m)
    ELSE WithIp(Ok(m), read_u16(ins, ip + 1) - 1)

run_OpJumpNotTruthy(m, ins, ip) ==
    IF ~fits(ins, ip, 2) THEN Panic(m)
    ELSE LET pos == read_u16(ins, ip + 1)
         IN  Bind(pop(m), LAMBDA r :
                 WithIp(r, IF ~is_truthy(r.val) THEN pos - 1 ELSE ip + 2))

\* OpSetGlobal without 'self.stack[self.sp] = Object::Null'
run_OpSetGlobal_no_clear(m, ins, ip) ==
    IF ~fits(ins, ip, 2) THEN Panic(m)
    ELSE LET global_index == read_u16(ins, ip + 1)
         IN  Bind(pop(m), LAMBDA r :
                 IF global_index >= GLOBALS_SIZE THEN Panic(r.m)
                 ELSE WithIp(Ok([r.m EXCEPT !.globals =
                                    (global_index :> r.val) @@ @]),
                             ip + 2))

\* OpSetGlobal that stores into the slot after the operand's
run_OpSetGlobal_next_slot(m, ins, ip) ==
    IF ~fits(ins, ip, 2) THEN Panic(m)
    ELSE LET global_index == read_u16(ins, ip + 1) + 1
         IN  Bind(pop(m), LAMBDA r :
                 IF global_index >= GLOBALS_SIZE THEN Panic(r.m)
                 ELSE WithIp(stack_set([r.m EXCEPT !.globals =
                                           (global_index :> r.val) @@ @],
                                       r.m.sp, Null),
                             ip + 2))

run_OpSetGlobal(m, ins, ip) ==
    IF ~fits(ins, ip, 2) THEN Panic(m)
    ELSE LET global_index == read_u16(ins, ip + 1)
         IN  Bind(pop(m), LAMBDA r :
                 IF global_index >= GLOBALS_SIZE THEN Panic(r.m)
                 ELSE WithIp(stack_set([r.m EXCEPT !.globals =
                                           (global_index :> r.val) @@ @],
                                       r.m.sp, Null),
                             ip + 2))

run_OpGetGlobal(m, ins, ip) ==
    IF ~fits(ins, ip, 2) THEN Panic(m)
    ELSE WithIp(push(m, globals_get(m, read_u16(ins, ip + 1))), ip + 2)

run_OpArray(m, ins, ip) ==
    IF ~fits(ins, ip, 2) THEN Panic(m)
    ELSE LET num_elements == read_u16(ins, ip + 1)
         IN  Bind(build_array(m, m.sp - num_elements, m.sp), LAMBDA r :
                 WithIp(push([r.m EXCEPT !.sp = @ - num_elements], r.val),
                        ip + 2))

run_OpHash(m, ins, ip) ==
    IF ~fits(ins, ip, 2) THEN Panic(m)
    ELSE LET num_elements == read_u16(ins, ip + 1)
         IN  Bind(build_hash(m, m.sp - num_elements, m.sp), LAMBDA r :
                 WithIp(push([r.m EXCEPT !.sp = @ - num_elements], r.val),
                        ip + 2))

run_OpIndex(m, ip) ==
    Bind(pop(m), LAMBDA r1 : Bind(pop(r1.m), LAMBDA r2 :
        WithIp(exec_index_op(r2.m, r2.val, r1.val), ip)))

run_OpSliceIndex(m, ip) ==
    Bind(pop(m), LAMBDA r1 : Bind(pop(r1.m), LAMBDA r2 :
        Bind(pop(r2.m), LAMBDA r3 :
            WithIp(exec_slice_index_op(r3.m, r3.val, r2.val, r1.val), ip))))

\* OpCall: the arm itself moves the frame's ip and ends with 'continue'
run_OpCall(m, ins, ip) ==
    IF ~fits(ins, ip, 1) THEN Panic(m)
    ELSE exec_call([m EXCEPT !.frames[m.frames_index].ip = @ + 1],
                   Byte(ins, ip + 1))

\* The common tail of OpReturnValue and OpReturn
run_return(m, return_value) ==
    Bind(pop_frame(m), LAMBDA rf :
        IF ~current_frame_ok(rf.m) \/ rf.val.base_pointer = 0 THEN Panic(rf.m)
        ELSE WithIp(push([rf.m EXCEPT !.sp = rf.val.base_pointer - 1],
                         return_value),
                    current_frame(rf.m).ip))

run_OpReturnValue(m) == Bind(pop(m), LAMBDA r : run_return(r.m, r.val))

run_OpReturn(m) == run_return(m, Null)

run_OpSetLocal(m, ins, ip) ==
    IF ~fits(ins, ip, 1) THEN Panic(m)
    ELSE LET local_index == Byte(ins, ip + 1)
             frame_base_pointer == current_frame(m).base_pointer
         IN  Bind(pop(m), LAMBDA r :
                 Bind(stack_set(r.m, frame_base_pointer + local_index, r.val),
                      LAMBDA w : WithIp(stack_set(w.m, w.m.sp, Null), ip + 1)))

run_OpGetLocal(m, ins, ip) ==
    IF ~fits(ins, ip, 1) THEN Panic(m)
    ELSE LET slot == current_frame(m).base_pointer + Byte(ins, ip + 1)
         IN  IF slot >= STACK_SIZE THEN Panic(m)
             ELSE WithIp(push(m, m.stack[slot]), ip + 1)

run_OpGetBuiltin(m, ins, ip) ==
    IF ~fits(ins, ip, 1) THEN Panic(m)
    ELSE LET builtin_index == Byte(ins, ip + 1)
         IN  IF builtin_index >= Len(BUILTINS) THEN Panic(m)
             ELSE WithIp(push(m, BuiltInFunction(BUILTINS[builtin_index + 1])),
                         ip + 1)

run_OpClosure(m, consts, ins, ip) ==
    IF ~fits(ins, ip, 3) THEN Panic(m)
    ELSE WithIp(push_closure(m, consts, read_u16(ins, ip + 1), Byte(ins, ip + 3)),
                ip + 3)

run_OpGetFree(m, ins, ip) ==
    IF ~fits(ins, ip, 1) THEN Panic(m)
    ELSE LET free_index == Byte(ins, ip + 1)
             current_closure == current_frame(m).cl
         IN  IF free_index >= Len(current_closure.free) THEN Panic(m)
             ELSE WithIp(push(m, current_closure.free[free_index + 1]), ip + 1)

run_OpCurrentClosure(m, ip) == WithIp(push(m, current_frame(m).cl), ip)


(***************************************************************************)
(* src/parser/ast.rs: the syntax tree                                      *)
(***************************************************************************)
StmtLet(name, value) == [k |-> "Let", name |-> name, value |-> value]
StmtReturn(value) == [k |-> "Return", value |-> value]
StmtExpression(value) == [k |-> "Expression", value |-> value]
StmtBlock(statements) == [k |-> "Block", statements |-> statements]

ExpIdentifier(name) == [k |-> "Identifier", name |-> name]
ExpInteger(v) == [k |-> "Integer", v |-> v]
ExpBoolean(v) == [k |-> "Boolean", v |-> v]
ExpString(v) == [k |-> "String", v |-> v]
ExpArray(elements) == [k |-> "Array", elements |-> elements]
\* pairs is a sequence of <<key, value>>
ExpHash(pairs) == [k |-> "Hash", pairs |-> pairs]
ExpPrefix(op, right) == [k |-> "Prefix", op |-> op, right |-> right]
ExpInfix(op, left, right) ==
    [k |-> "Infix", op |-> op, left |-> left, right |-> right]
\* alternative, start and stop are Options: <<>> is None, <<x>> is Some(x)
ExpIf(condition, consequence, alternative) ==
    [k |-> "If", condition |-> condition, consequence |-> consequence,
     alternative |-> alternative]
ExpFunction(parameters, body) ==
    [k |-> "Function", parameters |-> parameters, body |-> body]
ExpCall(function, arguments) ==
    [k |-> "Call", function |-> function, arguments |-> arguments]
ExpIndex(left, index) == [k |-> "Index", left |-> left, index |-> index]
ExpSliceIndex(left, start, stop) ==
    [k |-> "SliceIndex", left |-> left, start |-> start, stop |-> stop]

(***************************************************************************)
(* src/compiler/symbol_table/mod.rs.  The chain of tables linked by outer  *)
(* is a sequence: the last table is the current one, the table before it   *)
(* is its outer, the first has no outer.                                   *)
(***************************************************************************)
GLOBAL_SCOPE == "GLOBAL"
LOCAL_SCOPE == "LOCAL"
BUILTIN_SCOPE == "BUILTIN"
FREE_SCOPE == "FREE"
FUNCTION_SCOPE == "FUNCTION"

Symbol(name, scope, index) == [name |-> name, scope |-> scope, index |-> index]

\* SymbolTable::new
SymbolTable_new == [store |-> <<>>, num_definitions |-> 0, free_symbols |-> <<>>]

\* HashMap::insert that keeps the entry a key already has
store_insert_keep(store, name, symbol) == store @@ (name :> symbol)

\* HashMap::insert on a store
store_insert(store, name, symbol) == (name :> symbol) @@ store

\* SymbolTable::define on the table at position lvl of the chain
define(tables, lvl, name) ==
    LET symbol == Symbol(name, IF lvl > 1 THEN LOCAL_SCOPE ELSE GLOBAL_SCOPE,
                         tables[lvl].num_definitions)
    IN  [tables |-> [tables EXCEPT
                        ![lvl].store = store_insert(@, name, symbol),
                        ![lvl].num_definitions = @ + 1],
         symbol |-> symbol]

\* define_free that takes the index after the push without the '- 1'
define_free_index_after_push(tables, lvl, original) ==
    LET symbol == Symbol(original.name, FREE_SCOPE,
                         Len(tables[lvl].free_symbols) + 1)
    IN  [tables |-> [tables EXCEPT
                        ![lvl].free_symbols = Append(@, original),
                        ![lvl].store = store_insert(@, original.name, symbol)],
         symbol |-> <<symbol>>]

\* SymbolTable::define_free
define_free(tables, lvl, original) ==
    LET symbol == Symbol(original.name, FREE_SCOPE,
                         Len(tables[lvl].free_symbols))
    IN  [tables |-> [tables EXCEPT
                        ![lvl].free_symbols = Append(@, original),
                        ![lvl].store = store_insert(@, original.name, symbol)],
         symbol |-> <<symbol>>]

\* SymbolTable::define_builtin
define_builtin(tables, lvl, index, name) ==
    LET symbol == Symbol(name, BUILTIN_SCOPE, index)
    IN  [tables |-> [tables EXCEPT ![lvl].store = store_insert(@, name, symbol)],
         symbol |-> symbol]

\* define_function_name that takes an index as define does
define_function_name_counted(tables, lvl, name) ==
    LET symbol == Symbol(name, FUNCTION_SCOPE, 0)
    IN  [tables |-> [tables EXCEPT ![lvl].store = store_insert(@, name, symbol),
                                  ![lvl].num_definitions = @ + 1],
         symbol |-> symbol]

\* SymbolTable::define_function_name
define_function_name(tables, lvl, name) ==
    LET symbol == Symbol(name, FUNCTION_SCOPE, 0)
    IN  [tables |-> [tables EXCEPT ![lvl].store = store_insert(@, name, symbol)],
         symbol |-> symbol]

\* resolve that passes only GLOBAL symbols of the outer chain through
RECURSIVE resolve_global_only(_, _, _)
resolve_global_only(tables, lvl, name) ==
    IF name \in DOMAIN tables[lvl].store
    THEN [tables |-> tables, symbol |-> <<tables[lvl].store[name]>>]
    ELSE IF lvl = 1 THEN [tables |-> tables, symbol |-> <<>>]
    ELSE LET r == resolve_global_only(tables, lvl - 1, name)
         IN  IF r.symbol = <<>> THEN r
             ELSE IF r.symbol[1].scope = GLOBAL_SCOPE THEN r
             ELSE define_free(r.tables, lvl, r.symbol[1])

\* resolve that captures only from the table next to it: a FREE symbol of
\* the outer table is returned as it is
RECURSIVE resolve_free_of_outer(_, _, _)
resolve_free_of_outer(tables, lvl, name) ==
    IF name \in DOMAIN tables[lvl].store
    THEN [tables |-> tables, symbol |-> <<tables[lvl].store[name]>>]
    ELSE IF lvl = 1 THEN [tables |-> tables, symbol |-> <<>>]
    ELSE LET r == resolve_free_of_outer(tables, lvl - 1, name)
         IN  IF r.symbol = <<>> THEN r
             ELSE IF r.symbol[1].scope \in {GLOBAL_SCOPE, BUILTIN_SCOPE, FREE_SCOPE}
                  THEN r
             ELSE define_free(r.tables, lvl, r.symbol[1])

\* SymbolTable::resolve; symbol is an Option
RECURSIVE resolve(_, _, _)
resolve(tables, lvl, name) ==
    IF name \in DOMAIN tables[lvl].store
    THEN [tables |-> tables, symbol |-> <<tables[lvl].store[name]>>]
    ELSE IF lvl = 1 THEN [tables |-> tables, symbol |-> <<>>]
    ELSE LET r == resolve(tables, lvl - 1, name)
         IN  IF r.symbol = <<>> THEN r
             ELSE IF r.symbol[1].scope \in {GLOBAL_SCOPE, BUILTIN_SCOPE} THEN r
             ELSE define_free(r.tables, lvl, r.symbol[1])

(***************************************************************************)
(* src/compiler/mod.rs.  A Compiler value is a record; err holds the       *)
(* message of the Err a method returned ("" while none was returned).      *)
(***************************************************************************)
CompilationScope ==
    [instructions |-> <<>>, last_instruction |-> <<>>,
     previous_instruction |-> <<>>]

EmittedInstruction(opcode, position) == [opcode |-> opcode, position |-> position]

\* Compiler::new
Compiler_new ==
    [constants |-> <<>>, symbol_table |-> <<SymbolTable_new>>,
     scopes |-> <<CompilationScope>>, scope_index |-> 0, err |-> ""]

\* Compiler::reset
Compiler_reset(c) ==
    [c EXCEPT !.scopes = <<CompilationScope>>, !.scope_index = 0, !.err = ""]

\* Compiler::enter_scope
enter_scope(c) ==
    [c EXCEPT !.scopes = Append(@, CompilationScope),
              !.scope_index = @ + 1,
              !.symbol_table = Append(@, SymbolTable_new)]

\* Compiler::leave_scope (the instructions it returns are read by the caller
\* before the call)
leave_scope(c) ==
    [c EXCEPT !.scopes = SubSeq(@, 1, Len(@) - 1),
              !.scope_index = @ - 1,
              !.symbol_table = IF Len(@) > 1 THEN SubSeq(@, 1, Len(@) - 1) ELSE @]

\* Compiler::current_instructions
current_instructions(c) == c.scopes[c.scope_index + 1].instructions

\* Compiler::add_constant (the index it returns is Len(c.constants))
add_constant(c, object) == [c EXCEPT !.constants = Append(@, object)]

\* Compiler::set_last_instruction
set_last_instruction(c, opcode, position) ==
    LET previous == c.scopes[c.scope_index + 1].last_instruction
    IN  [c EXCEPT !.scopes[c.scope_index + 1].previous_instruction = previous,
                  !.scopes[c.scope_index + 1].last_instruction =
                      <<EmittedInstruction(opcode, position)>>]

\* Compiler::emit with add_instruction (the position it returns is the
\* length of the current instructions before the call)
emit(c, opcode, operands) ==
    LET position == Len(current_instructions(c))
        added == [c EXCEPT !.scopes[c.scope_index + 1].instructions =
                               @ \o make(opcode, operands)]
    IN  set_last_instruction(added, opcode, position)

\* Compiler::last_instruction_is
last_instruction_is(c, opcode) ==
    LET last == c.scopes[c.scope_index + 1].last_instruction
    IN  last # <<>> /\ last[1].opcode = opcode

\* Compiler::remove_last_pop
remove_last_pop(c) ==
    LET scope == c.scopes[c.scope_index + 1]
    IN  IF scope.last_instruction = <<>> THEN c
        ELSE [c EXCEPT !.scopes[c.scope_index + 1].instructions =
                           SubSeq(@, 1, scope.last_instruction[1].position),
                       !.scopes[c.scope_index + 1].last_instruction =
                           scope.previous_instruction]

\* Compiler::replace_instruction
replace_instruction(c, position, new_instruction) ==
    [c EXCEPT !.scopes[c.scope_index + 1].instructions =
        [j \in 1..Len(@) |->
            IF j > position /\ j <= position + Len(new_instruction)
            THEN new_instruction[j - position] ELSE @[j]]]

\* Compiler::replace_last_pop_with_return
replace_last_pop_with_return(c) ==
    LET last == c.scopes[c.scope_index + 1].last_instruction
    IN  IF last = <<>> THEN [c EXCEPT !.err = "no last instruction to replace"]
        ELSE [replace_instruction(c, last[1].position, make(OpReturnValue, <<>>))
                EXCEPT !.scopes[c.scope_index + 1].last_instruction =
                    <<EmittedInstruction(OpReturnValue, last[1].position)>>]

\* change_operand that leaves the placeholder of the instruction in place
change_operand_unpatched(c, position, operand) == c

\* Compiler::change_operand
change_operand(c, position, operand) ==
    LET op == Byte(current_instructions(c), position)
    IN  replace_instruction(c, position, make(op, <<operand>>))

\* The ? operator on a Result<()>: continue with F unless c holds an Err
Try(c, F(_)) == IF c.err # "" THEN c ELSE F(c)

RECURSIVE compile_statement(_, _), compile_expression(_, _)
RECURSIVE compile_statements(_, _), compile_expressions(_, _), compile_pairs(_, _)

\* for statement in statements { compile_node(statement)? }
compile_statements(c, statements) ==
    IF statements = <<>> THEN c
    ELSE Try(compile_statement(c, Head(statements)),
             LAMBDA c1 : compile_statements(c1, Tail(statements)))

\* for element in elements { compile_node(element)? }
compile_expressions(c, elements) ==
    IF elements = <<>> THEN c
    ELSE Try(compile_expression(c, Head(elements)),
             LAMBDA c1 : compile_expressions(c1, Tail(elements)))

\* for (key, value) in pairs { compile_node(key)?; compile_node(value)? }
compile_pairs(c, pairs) ==
    IF pairs = <<>> THEN c
    ELSE Try(compile_expressions(c, Head(pairs)),
             LAMBDA c1 : compile_pairs(c1, Tail(pairs)))

\* Statement::Let
compile_let(c, statement) ==
    Try(compile_expression(c, statement.value), LAMBDA c1 :
        LET d == define(c1.symbol_table, Len(c1.symbol_table), statement.name)
            c2 == [c1 EXCEPT !.symbol_table = d.tables]
        IN  emit(c2, IF d.symbol.scope = GLOBAL_SCOPE THEN OpSetGlobal
                     ELSE OpSetLocal, <<d.symbol.index>>))

\* Compiler::compile_statement
compile_statement(c, statement) ==
    CASE statement.k = "Expression" ->
            Try(compile_expression(c, statement.value),
                LAMBDA c1 : emit(c1, OpPop, <<>>))
      [] statement.k = "Block" -> compile_statements(c, statement.statements)
      [] statement.k = "Let" -> compile_let(c, statement)
      [] statement.k = "Return" ->
            Try(compile_expression(c, statement.value),
                LAMBDA c1 : emit(c1, OpReturnValue, <<>>))

\* Expression::Infix
compile_infix(c, e) ==
    IF e.op = "<"
    THEN Try(compile_expression(c, e.right), LAMBDA c1 :
         Try(compile_expression(c1, e.left), LAMBDA c2 :
             emit(c2, OpGreaterThan, <<>>)))
    ELSE Try(compile_expression(c, e.left), LAMBDA c1 :
         Try(compile_expression(c1, e.right), LAMBDA c2 :
             CASE e.op = "+" -> emit(c2, OpAdd, <<>>)
               [] e.op = "-" -> emit(c2, OpSub, <<>>)
               [] e.op = "*" -> emit(c2, OpMul, <<>>)
               [] e.op = "/" -> emit(c2, OpDiv, <<>>)
               [] e.op = "==" -> emit(c2, OpEqual, <<>>)
               [] e.op = "!=" -> emit(c2, OpNotEqual, <<>>)
               [] e.op = ">" -> emit(c2, OpGreaterThan, <<>>)
               [] OTHER -> [c2 EXCEPT !.err = "unknown operator: " \o e.op]))

\* Expression::Prefix
compile_prefix(c, e) ==
    Try(compile_expression(c, e.right), LAMBDA c1 :
        CASE e.op = "-" -> emit(c1, OpMinus, <<>>)
          [] e.op = "!" -> emit(c1, OpBang, <<>>)
          [] OTHER -> [c1 EXCEPT !.err = "unknown operator: " \o e.op])

\* if self.last_instruction_is(OpPop) { self.remove_last_pop() }
strip_last_pop(c) == IF last_instruction_is(c, OpPop) THEN remove_last_pop(c) ELSE c

\* Expression::If, from the alternative on
compile_if_alternative(c, e, jump_not_truthy_pos, jump_pos) ==
    LET patched == change_operand(c, jump_not_truthy_pos,
                                  Len(current_instructions(c)))
        done(c1) == change_operand(c1, jump_pos, Len(current_instructions(c1)))
    IN  IF e.alternative # <<>>
        THEN Try(compile_statement(
                    change_operand(patched, jump_not_truthy_pos,
                                   Len(current_instructions(patched))),
                    e.alternative[1]),
                 LAMBDA c1 : done(strip_last_pop(c1)))
        ELSE done(emit(patched, OpNull, <<>>))

\* Expression::If
compile_if(c, e) ==
    Try(compile_expression(c, e.condition), LAMBDA c1 :
        LET jump_not_truthy_pos == Len(current_instructions(c1))
        IN  Try(compile_statement(emit(c1, OpJumpNotTruthy, <<9999>>),
                                  e.consequence),
                LAMBDA c2 :
                    LET c3 == strip_last_pop(c2)
                        jump_pos == Len(current_instructions(c3))
                    IN  compile_if_alternative(emit(c3, OpJump, <<9999>>), e,
                                               jump_not_truthy_pos, jump_pos)))

\* Expression::Identifier
compile_identifier(c, e) ==
    LET r == resolve(c.symbol_table, Len(c.symbol_table), e.name)
        c1 == [c EXCEPT !.symbol_table = r.tables]
    IN  IF r.symbol = <<>> THEN [c1 EXCEPT !.err = "undefined variable: " \o e.name]
        ELSE IF r.symbol[1].scope = GLOBAL_SCOPE
             THEN emit(c1, OpGetGlobal, <<r.symbol[1].index>>)
             ELSE emit(c1, OpGetLocal, <<r.symbol[1].index>>)

\* Expression::SliceIndex
compile_slice_index(c, e) ==
    LET bound(c1, b) == IF b # <<>> THEN compile_expression(c1, b[1])
                        ELSE emit(c1, OpNull, <<>>)
    IN  Try(compile_expression(c, e.left), LAMBDA c1 :
        Try(bound(c1, e.start), LAMBDA c2 :
        Try(bound(c2, e.stop), LAMBDA c3 : emit(c3, OpSliceIndex, <<>>))))

\* Expression::Function: the parameters are not read, and the literal
\* CompiledFunction { instructions, num_locals } names no num_parameters
compile_function(c, e) ==
    Try(compile_statement(enter_scope(c), e.body), LAMBDA c1 :
    Try(IF last_instruction_is(c1, OpPop)
        THEN replace_last_pop_with_return(c1) ELSE c1, LAMBDA c2 :
        LET c3 == IF ~last_instruction_is(c2, OpReturnValue)
                  THEN emit(c2, OpReturn, <<>>) ELSE c2
            num_locals == c3.symbol_table[Len(c3.symbol_table)].num_definitions
            instructions == current_instructions(c3)
            c4 == leave_scope(c3)
            constant == Len(c4.constants)
        IN  emit(add_constant(c4, CompiledFunction(instructions, num_locals, 0)),
                 OpConstant, <<constant>>)))

\* Compiler::compile_expression
compile_expression(c, e) ==
    CASE e.k = "Integer" ->
            emit(add_constant(c, Integer(e.v)), OpConstant, <<Len(c.constants)>>)
      [] e.k = "Boolean" -> emit(c, IF e.v THEN OpTrue ELSE OpFalse, <<>>)
      [] e.k = "String" ->
            emit(add_constant(c, String(e.v)), OpConstant, <<Len(c.constants)>>)
      [] e.k = "Hash" ->
            Try(compile_pairs(c, e.pairs),
                LAMBDA c1 : emit(c1, OpHash, <<Len(e.pairs) * 2>>))
      [] e.k = "Array" ->
            Try(compile_expressions(c, e.elements),
                LAMBDA c1 : emit(c1, OpArray, <<Len(e.elements)>>))
      [] e.k = "Infix" -> compile_infix(c, e)
      [] e.k = "Prefix" -> compile_prefix(c, e)
      [] e.k = "If" -> compile_if(c, e)
      [] e.k = "Identifier" -> compile_identifier(c, e)
      [] e.k = "Index" ->
            Try(compile_expression(c, e.left), LAMBDA c1 :
            Try(compile_expression(c1, e.index), LAMBDA c2 :
                emit(c2, OpIndex, <<>>)))
      [] e.k = "SliceIndex" -> compile_slice_index(c, e)
      [] e.k = "Function" -> compile_function(c, e)
      [] e.k = "Call" ->
            Try(compile_expression(c, e.function),
                LAMBDA c1 : emit(c1, OpCall, <<>>))

\* Compiler::compile, compile_program
compile(c, program) == compile_statements(c, program)

\* Compiler::bytecode
bytecode(c) ==
    [instructions |-> current_instructions(c), constants |-> c.constants]

(***************************************************************************)
(* src/eval/mod.rs: the tree-walking evaluator.  The environments, shared  *)
(* by reference in the source, are the elements of the sequence envs and   *)
(* are named by their position; outer = 0 is None.  An outcome is the      *)
(* record [envs, err, val]: err = "" for Ok(val).                          *)
(***************************************************************************)
Function(params, body, env) ==
    [t |-> "Function", params |-> params, body |-> body, env |-> env]
ReturnValue(v) == [t |-> "ReturnValue", v |-> v]

EvOk(envs, v) == [envs |-> envs, err |-> "", val |-> v]
EvErr(envs, msg) == [envs |-> envs, err |-> msg, val |-> Null]
\* The ? operator on a Result<Object>
EvTry(r, F(_)) == IF r.err # "" THEN r ELSE F(r)

\* eval/object.rs, Object::type_name
eval_type_name(obj) ==
    CASE obj.t = "ReturnValue" -> "RETURN_VALUE"
      [] obj.t = "Function" -> "FUNCTION_OBJ"
      [] OTHER -> type_name(obj)

\* Environment::default
Environment_default == [values |-> <<>>, outer |-> 0]

\* Environment::get; the result is an Option
RECURSIVE env_get(_, _, _)
env_get(envs, env, name) ==
    IF name \in DOMAIN envs[env].values THEN <<envs[env].values[name]>>
    ELSE IF envs[env].outer # 0 THEN env_get(envs, envs[env].outer, name)
    ELSE <<>>

\* Environment::set
env_set(envs, env, name, value) ==
    [envs EXCEPT ![env].values = (name :> value) @@ @]

\* eval/builtins.rs: get_builtin and len
eval_builtin_len(envs, args) ==
    IF Len(args) # 1
    THEN EvErr(envs, "wrong number of arguments. got=" \o ToString(Len(args))
                     \o ", want=1")
    ELSE IF args[1].t = "String" THEN EvOk(envs, Integer(Len(args[1].s)))
    ELSE EvErr(envs, "argument to len not supported, got "
                     \o eval_type_name(args[1]))

\* Evaluator::eval_integer_infix_expression
eval_integer_infix_expression(envs, op, left, right) ==
    CASE op = "+" -> EvOk(envs, Integer(left + right))
      [] op = "-" -> EvOk(envs, Integer(left - right))
      [] op = "/" -> IF right = 0 THEN EvErr(envs, "panic")
                     ELSE EvOk(envs, Integer(TruncDiv(left, right)))
      [] op = "*" -> EvOk(envs, Integer(left * right))
      [] op = "<" -> EvOk(envs, Boolean(left < right))
      [] op = ">" -> EvOk(envs, Boolean(left > right))
      [] op = "==" -> EvOk(envs, Boolean(left = right))
      [] op = "!=" -> EvOk(envs, Boolean(left # right))
      [] OTHER -> EvErr(envs, "unknown operator: INTEGER " \o op \o " INTEGER")

\* Evaluator::eval_string_infix_expression
eval_string_infix_expression(envs, op, left, right) ==
    CASE op = "+" -> EvOk(envs, String(left \o right))
      [] op = "==" -> EvOk(envs, Boolean(left = right))
      [] op = "!=" -> EvOk(envs, Boolean(left # right))
      [] OTHER -> EvErr(envs, "unknown operator: STRING " \o op \o " STRING")

\* Evaluator::eval_infix_expression, the match on the two values
eval_infix_values(envs, op, left, right) ==
    CASE left.t = "Integer" /\ right.t = "Integer" ->
            eval_integer_infix_expression(envs, op, left.i, right.i)
      [] left.t = "String" /\ right.t = "String" ->
            eval_string_infix_expression(envs, op, left.s, right.s)
      [] op = "==" /\ left.t = "Boolean" /\ right.t = "Boolean" ->
            EvOk(envs, Boolean(left.b = right.b))
      [] op = "!=" /\ left.t = "Boolean" /\ right.t = "Boolean" ->
            EvOk(envs, Boolean(left.b # right.b))
      [] OTHER ->
            IF eval_type_name(left) # eval_type_name(right)
            THEN EvErr(envs, "type mismatch: " \o eval_type_name(left) \o " "
                             \o op \o " " \o eval_type_name(right))
            ELSE EvErr(envs, "unknown operator: " \o eval_type_name(left) \o " "
                             \o op \o " " \o eval_type_name(right))

\* Evaluator::eval_prefix_expression, the match on the operator
eval_prefix_value(envs, op, right) ==
    IF op = "!" THEN EvOk(envs, Boolean(~is_truthy(right)))
    ELSE IF op = "-" /\ right.t = "Integer" THEN EvOk(envs, Integer(-right.i))
    ELSE EvErr(envs, "unknown operator: " \o op \o eval_type_name(right))

\* Evaluator::eval_index_expression, the match on the two values
eval_index_values(envs, left, index) ==
    CASE left.t = "Array" /\ index.t = "Integer" ->
            LET idx == IF index.i < 0 THEN Len(left.a) + index.i ELSE index.i
            IN  EvOk(envs, IF idx >= 0 /\ idx < Len(left.a) THEN left.a[idx + 1]
                           ELSE Null)
      [] left.t = "String" /\ index.t = "Integer" ->
            LET idx == IF index.i < 0 THEN Len(left.s) + index.i ELSE index.i
            IN  EvOk(envs, IF idx >= 0 /\ idx < Len(left.s)
                           THEN String(<<left.s[idx + 1]>>) ELSE Null)
      [] left.t = "Hash" ->
            IF ~is_hash_key(index)
            THEN EvErr(envs, "unusable as hash key: " \o eval_type_name(index))
            ELSE EvOk(envs, IF index \in DOMAIN left.h THEN left.h[index] ELSE Null)
      [] OTHER -> EvErr(envs, "index operator not supported: "
                              \o eval_type_name(left) \o "["
                              \o eval_type_name(index) \o "]")

\* Evaluator::eval_slice_index_expression, the match on the values; start
\* and stop are Options
eval_slice_values(envs, left, start, stop) ==
    IF left.t \notin {"Array", "String"}
    THEN EvErr(envs, "slice operator not supported: " \o eval_type_name(left))
    ELSE LET seq == IF left.t = "Array" THEN left.a ELSE left.s
         IN  IF start # <<>> /\ start[1].t # "Integer"
             THEN EvErr(envs, "slice start must be an integer")
             ELSE IF stop # <<>> /\ stop[1].t # "Integer"
             THEN EvErr(envs, "slice stop must be an integer")
             ELSE LET s0 == IF start = <<>> THEN 0
                            ELSE slice_bound(start[1].i, Len(seq))
                      e0 == IF stop = <<>> THEN Len(seq)
                            ELSE slice_bound(stop[1].i, Len(seq))
                      sel == get_range(seq, s0, e0)
                  IN  EvOk(envs, IF left.t = "Array" THEN Array(sel)
                                 ELSE String(sel))

RECURSIVE eval_statement(_, _, _), eval_expression(_, _, _)
RECURSIVE eval_block_loop(_, _, _, _), eval_program_loop(_, _, _, _)
RECURSIVE eval_all(_, _, _, _), eval_hash_loop(_, _, _, _)

\* Evaluator::eval_block_statement; result is the outcome so far
eval_block_loop(envs, env, statements, result) ==
    IF statements = <<>> THEN result
    ELSE LET r == eval_statement(envs, env, Head(statements))
         IN  IF r.err # "" \/ r.val.t = "ReturnValue" THEN r
             ELSE eval_block_loop(r.envs, env, Tail(statements), r)

\* Evaluator::eval_program; result is the outcome so far
eval_program_loop(envs, env, statements, result) ==
    IF statements = <<>> THEN result
    ELSE LET r == eval_statement(envs, env, Head(statements))
         IN  IF r.err # "" THEN r
             ELSE IF r.val.t = "ReturnValue" THEN EvOk(r.envs, r.val.v)
             ELSE eval_program_loop(r.envs, env, Tail(statements), r)

\* elements.iter().map(eval_node).collect::<Result<Vec<Object>>>(); acc is
\* the vector collected so far, val of the outcome is the whole vector
eval_all(envs, env, elements, acc) ==
    IF elements = <<>> THEN EvOk(envs, acc)
    ELSE EvTry(eval_expression(envs, env, Head(elements)), LAMBDA r :
               eval_all(r.envs, env, Tail(elements), Append(acc, r.val)))

\* Evaluator::eval_hash_literal_expression; pairs is the map built so far
eval_hash_loop(envs, env, elements, pairs) ==
    IF elements = <<>> THEN EvOk(envs, Hash(pairs))
    ELSE EvTry(eval_expression(envs, env, Head(elements)[1]), LAMBDA key :
         EvTry(eval_expression(key.envs, env, Head(elements)[2]), LAMBDA value :
               IF ~is_hash_key(key.val)
               THEN EvErr(value.envs, "unusable as hash key: "
                                      \o eval_type_name(key.val))
               ELSE eval_hash_loop(value.envs, env, Tail(elements),
                                   (key.val :> value.val) @@ pairs)))

\* Evaluator::eval_statement with eval_let_statement
eval_statement(envs, env, statement) ==
    CASE statement.k = "Expression" -> eval_expression(envs, env, statement.value)
      [] statement.k = "Block" ->
            eval_block_loop(envs, env, statement.statements, EvOk(envs, Null))
      [] statement.k = "Return" ->
            EvTry(eval_expression(envs, env, statement.value),
                  LAMBDA r : EvOk(r.envs, ReturnValue(r.val)))
      [] statement.k = "Let" ->
            EvTry(eval_expression(envs, env, statement.value),
                  LAMBDA r : EvOk(env_set(r.envs, env, statement.name, r.val), Null))

\* Evaluator::eval_if_expression
eval_if_expression(envs, env, e) ==
    EvTry(eval_expression(envs, env, e.condition), LAMBDA condition :
          IF is_truthy(condition.val)
          THEN eval_statement(condition.envs, env, e.consequence)
          ELSE IF e.alternative # <<>>
               THEN eval_statement(condition.envs, env, e.alternative[1])
               ELSE EvOk(condition.envs, Null))

\* Evaluator::eval_identifier_expression
eval_identifier_expression(envs, env, name) ==
    LET value == env_get(envs, env, name)
    IN  IF value # <<>> THEN EvOk(envs, value[1])
        ELSE IF name = "len" THEN EvOk(envs, BuiltInFunction("len"))
        ELSE EvErr(envs, "identifier not found: " \o name)

\* params.iter().zip(args) set one after the other in a new environment
zip_values(params, args) ==
    LET n == IF Len(params) < Len(args) THEN Len(params) ELSE Len(args)
    IN  [name \in {params[i] : i \in 1..n} |->
            args[CHOOSE i \in 1..n :
                    params[i] = name /\ \A j \in (i + 1)..n : params[j] # name]]

\* Evaluator::eval_function_call_expression
eval_function_call_expression(envs, env, e) ==
    EvTry(eval_expression(envs, env, e.function), LAMBDA function :
    EvTry(eval_all(function.envs, env, e.arguments, <<>>), LAMBDA args :
          CASE function.val.t = "Function" ->
                 LET extended == Append(args.envs,
                                    [values |-> zip_values(function.val.params,
                                                           args.val),
                                     outer |-> function.val.env])
                     evaluated == eval_statement(extended, Len(extended),
                                                 function.val.body)
                 IN  IF evaluated.err = "" /\ evaluated.val.t = "ReturnValue"
                     THEN EvOk(evaluated.envs, evaluated.val.v)
                     ELSE evaluated
            [] function.val.t = "BuiltInFunction" ->
                 eval_builtin_len(args.envs, args.val)
            [] OTHER -> EvErr(args.envs, "not a function: "
                                         \o eval_type_name(function.val))))

\* Evaluator::eval_slice_index_expression
eval_slice_index_expression(envs, env, e) ==
    LET bound(envs1, b) == IF b = <<>> THEN EvOk(envs1, <<>>)
                           ELSE EvTry(eval_expression(envs1, env, b[1]),
                                      LAMBDA r : EvOk(r.envs, <<r.val>>))
    IN  EvTry(eval_expression(envs, env, e.left), LAMBDA left :
        EvTry(bound(left.envs, e.start), LAMBDA start :
        EvTry(bound(start.envs, e.stop), LAMBDA stop :
              eval_slice_values(stop.envs, left.val, start.val, stop.val))))

\* Evaluator::eval_expression
eval_expression(envs, env, e) ==
    CASE e.k = "Integer" -> EvOk(envs, Integer(e.v))
      [] e.k = "Boolean" -> EvOk(envs, Boolean(e.v))
      [] e.k = "String" -> EvOk(envs, String(e.v))
      [] e.k = "Array" ->
            EvTry(eval_all(envs, env, e.elements, <<>>),
                  LAMBDA r : EvOk(r.envs, Array(r.val)))
      [] e.k = "Hash" -> eval_hash_loop(envs, env, e.pairs, <<>>)
      [] e.k = "Prefix" ->
            EvTry(eval_expression(envs, env, e.right),
                  LAMBDA right : eval_prefix_value(right.envs, e.op, right.val))
      [] e.k = "Infix" ->
            EvTry(eval_expression(envs, env, e.left), LAMBDA left :
            EvTry(eval_expression(left.envs, env, e.right), LAMBDA right :
                  eval_infix_values(right.envs, e.op, left.val, right.val)))
      [] e.k = "If" -> eval_if_expression(envs, env, e)
      [] e.k = "Identifier" -> eval_identifier_expression(envs, env, e.name)
      [] e.k = "Function" -> EvOk(envs, Function(e.parameters, e.body, env))
      [] e.k = "Call" -> eval_function_call_expression(envs, env, e)
      [] e.k = "Index" ->
            EvTry(eval_expression(envs, env, e.left), LAMBDA left :
            EvTry(eval_expression(left.envs, env, e.index), LAMBDA index :
                  eval_index_values(index.envs, left.val, index.val)))
      [] e.k = "SliceIndex" -> eval_slice_index_expression(envs, env, e)

\* Evaluator::default().eval(program)
eval(program) ==
    eval_program_loop(<<Environment_default>>, 1, program,
                      EvOk(<<Environment_default>>, Null))

(***************************************************************************)
(* Input programs.  A source program is a syntax tree, compiled by a new   *)
(* Compiler; its text is given in the comment.                             *)
(***************************************************************************)
\* The program with what Compiler::bytecode gives after compile, and the
\* error compile returned ("" for Ok)
Compiled(program, c) ==
    [program |-> <<program>>, bytecode |-> bytecode(c), err |-> c.err]

\* Compiler::new, compile_node(Program), bytecode
Source(program) == Compiled(program, compile(Compiler_new, program))

Lit(v) == ExpInteger(v)
Id(name) == ExpIdentifier(name)
Expr(e) == StmtExpression(e)

\* (1 + 2) * 3 - 4 / 2; -5; !true; !5
S_arith ==
    <<Expr(ExpInfix("-", ExpInfix("*", ExpInfix("+", Lit(1), Lit(2)), Lit(3)),
                    ExpInfix("/", Lit(4), Lit(2)))),
      Expr(ExpPrefix("-", Lit(5))),
      Expr(ExpPrefix("!", ExpBoolean(TRUE))),
      Expr(ExpPrefix("!", Lit(5)))>>

\* 1 < 2; 1 > 2; 1 == 1; true != false; "mon" + "key"
S_compare ==
    <<Expr(ExpInfix("<", Lit(1), Lit(2))),
      Expr(ExpInfix(">", Lit(1), Lit(2))),
      Expr(ExpInfix("==", Lit(1), Lit(1))),
      Expr(ExpInfix("!=", ExpBoolean(TRUE), ExpBoolean(FALSE))),
      Expr(ExpInfix("+", ExpString(<<"m", "o", "n">>),
                    ExpString(<<"k", "e", "y">>)))>>

\* let one = 1; let two = one + one; one + two
S_globals ==
    <<StmtLet("one", Lit(1)),
      StmtLet("two", ExpInfix("+", Id("one"), Id("one"))),
      Expr(ExpInfix("+", Id("one"), Id("two")))>>

\* if (1 > 2) { 10 } else { 20 }; if (false) { 10 }; if (true) { 1; 2 }
S_if ==
    <<Expr(ExpIf(ExpInfix(">", Lit(1), Lit(2)),
                 StmtBlock(<<Expr(Lit(10))>>),
                 <<StmtBlock(<<Expr(Lit(20))>>)>>)),
      Expr(ExpIf(ExpBoolean(FALSE), StmtBlock(<<Expr(Lit(10))>>), <<>>)),
      Expr(ExpIf(ExpBoolean(TRUE),
                 StmtBlock(<<Expr(Lit(1)), Expr(Lit(2))>>), <<>>))>>

\* [1, 2 * 2, 3][1]; [1, 2, 3][1:]; "abc"[:-1]; {1: 2, true: 3}[true]; "abc"[5]
S_index ==
    <<Expr(ExpIndex(ExpArray(<<Lit(1), ExpInfix("*", Lit(2), Lit(2)), Lit(3)>>),
                    Lit(1))),
      Expr(ExpSliceIndex(ExpArray(<<Lit(1), Lit(2), Lit(3)>>),
                         <<Lit(1)>>, <<>>)),
      Expr(ExpSliceIndex(ExpString(<<"a", "b", "c">>), <<>>,
                         <<ExpPrefix("-", Lit(1))>>)),
      Expr(ExpIndex(ExpHash(<<<<Lit(1), Lit(2)>>,
                              <<ExpBoolean(TRUE), Lit(3)>>>>),
                    ExpBoolean(TRUE))),
      Expr(ExpIndex(ExpString(<<"a", "b", "c">>), Lit(5)))>>

\* "a" == "a"
S_string_eq ==
    <<Expr(ExpInfix("==", ExpString(<<"a">>), ExpString(<<"a">>)))>>

\* "a" != "b"
S_string_neq ==
    <<Expr(ExpInfix("!=", ExpString(<<"a">>), ExpString(<<"b">>)))>>

\* return 5; 6
S_return ==
    <<StmtReturn(Lit(5)), Expr(Lit(6))>>

\* if (true) { }
S_if_empty ==
    <<Expr(ExpIf(ExpBoolean(TRUE), StmtBlock(<<>>), <<>>))>>

\* 7; if (1 < 2) { let a = 1; } else { 3 }
S_if_let ==
    <<Expr(Lit(7)),
      Expr(ExpIf(ExpInfix("<", Lit(1), Lit(2)),
                 StmtBlock(<<StmtLet("a", Lit(1))>>),
                 <<StmtBlock(<<Expr(Lit(3))>>)>>))>>

\* [1, if (false) { 2 } else { }]
S_else_empty ==
    <<Expr(ExpArray(<<Lit(1),
                     ExpIf(ExpBoolean(FALSE), StmtBlock(<<Expr(Lit(2))>>),
                           <<StmtBlock(<<>>)>>)>>))>>

\* fn() { 5 }()
S_call ==
    <<Expr(ExpCall(ExpFunction(<<>>, StmtBlock(<<Expr(Lit(5))>>)), <<>>))>>

\* fn(a, b) { 1 }
S_parameters ==
    <<Expr(ExpFunction(<<"a", "b">>, StmtBlock(<<Expr(Lit(1))>>)))>>

\* fn() { let c = 1; fn() { c } }
S_free ==
    <<Expr(ExpFunction(<<>>,
            StmtBlock(<<StmtLet("c", Lit(1)),
                        Expr(ExpFunction(<<>>, StmtBlock(<<Expr(Id("c"))>>)))>>)))>>

(***************************************************************************)
(* Programs with closure calls.  VM::run executes OpClosure, OpGetFree,    *)
(* OpCurrentClosure and OpGetBuiltin and calls Closure objects only, which *)
(* Compiler::compile_expression in src/compiler/mod.rs does not emit; the  *)
(* bytecode of these programs is written out as in src/vm/tests.rs and     *)
(* src/code/tests.rs (concatenated make calls), from the text in the       *)
(* comment.                                                                *)
(***************************************************************************)
Assembled(ins, consts) ==
    [program |-> <<>>,
     bytecode |-> [instructions |-> Concat(ins), constants |-> consts],
     err |-> ""]

\* let newAdder = fn(a, b) { fn(c) { a + b + c } };
\* let adder = newAdder(1, 2); adder(8);
R_closure ==
    Assembled(
        <<make(OpClosure, <<1, 0>>), make(OpSetGlobal, <<0>>),
          make(OpGetGlobal, <<0>>), make(OpConstant, <<2>>),
          make(OpConstant, <<3>>), make(OpCall, <<2>>), make(OpSetGlobal, <<1>>),
          make(OpGetGlobal, <<1>>), make(OpConstant, <<4>>), make(OpCall, <<1>>),
          make(OpPop, <<>>)>>,
        <<CompiledFunction(Concat(<<make(OpGetFree, <<0>>), make(OpGetFree, <<1>>),
                                    make(OpAdd, <<>>), make(OpGetLocal, <<0>>),
                                    make(OpAdd, <<>>), make(OpReturnValue, <<>>)>>),
                           1, 1),
          CompiledFunction(Concat(<<make(OpGetLocal, <<0>>), make(OpGetLocal, <<1>>),
                                    make(OpClosure, <<0, 2>>),
                                    make(OpReturnValue, <<>>)>>),
                           2, 2),
          Integer(1), Integer(2), Integer(8)>>)

\* let f = fn(a, b) { let c = a + b; c }; f(1, 2) + f(3, 4)
R_locals ==
    Assembled(
        <<make(OpClosure, <<0, 0>>), make(OpSetGlobal, <<0>>),
          make(OpGetGlobal, <<0>>), make(OpConstant, <<1>>),
          make(OpConstant, <<2>>), make(OpCall, <<2>>),
          make(OpGetGlobal, <<0>>), make(OpConstant, <<3>>),
          make(OpConstant, <<4>>), make(OpCall, <<2>>),
          make(OpAdd, <<>>), make(OpPop, <<>>)>>,
        <<CompiledFunction(Concat(<<make(OpGetLocal, <<0>>), make(OpGetLocal, <<1>>),
                                    make(OpAdd, <<>>), make(OpSetLocal, <<2>>),
                                    make(OpGetLocal, <<2>>),
                                    make(OpReturnValue, <<>>)>>),
                           3, 2),
          Integer(1), Integer(2), Integer(3), Integer(4)>>)

\* let g = 9; [g, fn() { }()]
R_noreturn ==
    Assembled(
        <<make(OpConstant, <<0>>), make(OpSetGlobal, <<0>>),
          make(OpGetGlobal, <<0>>), make(OpClosure, <<1, 0>>),
          make(OpCall, <<0>>), make(OpArray, <<2>>), make(OpPop, <<>>)>>,
        <<Integer(9), CompiledFunction(make(OpReturn, <<>>), 0, 0)>>)

\* len("ab"); first([1, 2]); len(1)
R_builtin ==
    Assembled(
        <<make(OpGetBuiltin, <<0>>), make(OpConstant, <<0>>), make(OpCall, <<1>>),
          make(OpPop, <<>>),
          make(OpGetBuiltin, <<2>>), make(OpConstant, <<1>>),
          make(OpConstant, <<2>>), make(OpArray, <<2>>), make(OpCall, <<1>>),
          make(OpPop, <<>>),
          make(OpGetBuiltin, <<0>>), make(OpConstant, <<1>>), make(OpCall, <<1>>),
          make(OpPop, <<>>)>>,
        <<String(<<"a", "b">>), Integer(1), Integer(2)>>)

\* fn(a) { a; }()
R_wrong_args ==
    Assembled(
        <<make(OpClosure, <<0, 0>>), make(OpCall, <<0>>), make(OpPop, <<>>)>>,
        <<CompiledFunction(Concat(<<make(OpGetLocal, <<0>>),
                                    make(OpReturnValue, <<>>)>>), 1, 1)>>)

\* let g = 1; [7, fn(a, b) { a }(1)]
R_wrong_args_nested ==
    Assembled(
        <<make(OpConstant, <<0>>), make(OpSetGlobal, <<0>>),
          make(OpConstant, <<1>>), make(OpClosure, <<2, 0>>),
          make(OpConstant, <<3>>), make(OpCall, <<1>>),
          make(OpArray, <<2>>), make(OpPop, <<>>)>>,
        <<Integer(1), Integer(7),
          CompiledFunction(Concat(<<make(OpGetLocal, <<0>>),
                                    make(OpReturnValue, <<>>)>>), 2, 2),
          Integer(1)>>)

\* fn(x) { fn(a) { a }(x, x) }(3)
R_wrong_args_inner ==
    Assembled(
        <<make(OpClosure, <<1, 0>>), make(OpConstant, <<2>>), make(OpCall, <<1>>),
          make(OpPop, <<>>)>>,
        <<CompiledFunction(Concat(<<make(OpGetLocal, <<0>>),
                                    make(OpReturnValue, <<>>)>>), 1, 1),
          CompiledFunction(Concat(<<make(OpClosure, <<0, 0>>),
                                    make(OpGetLocal, <<0>>), make(OpGetLocal, <<0>>),
                                    make(OpCall, <<2>>),
                                    make(OpReturnValue, <<>>)>>), 1, 1),
          Integer(3)>>)

\* let f = fn(a1, .., ap) { let h1 = a1; ..; let hl = a1; f(a1, .., ap) };
\* f(1, .., p)
R_recursive(p, l) ==
    Assembled(
        <<make(OpClosure, <<0, 0>>), make(OpSetGlobal, <<0>>),
          make(OpGetGlobal, <<0>>)>>
        \o [i \in 1..p |-> make(OpConstant, <<i>>)]
        \o <<make(OpCall, <<p>>), make(OpPop, <<>>)>>,
        <<CompiledFunction(
              Concat([j \in 1..l |-> make(OpGetLocal, <<0>>)
                                     \o make(OpSetLocal, <<p + j - 1>>)]
                     \o <<make(OpCurrentClosure, <<>>)>>
                     \o [i \in 1..p |-> make(OpGetLocal, <<i - 1>>)]
                     \o <<make(OpCall, <<p>>), make(OpReturnValue, <<>>)>>),
              p + l, p)>>
        \o [i \in 1..p |-> Integer(i)])

\* let f = fn() { f() }; f()
R_frame_overflow == R_recursive(0, 0)

\* let f = fn(a, b, c, d, e, g) { f(a, b, c, d, e, g) }; f(1, 2, 3, 4, 5, 6)
R_stack_overflow == R_recursive(6, 0)

\* let f = fn(a, b, c, d, e, g) {
\*     let h = a; let i = a; let j = a; f(a, b, c, d, e, g) };
\* f(1, 2, 3, 4, 5, 6)
R_locals_overflow == R_recursive(6, 3)

\* [5, fn() { if (true) { }; if (true) { }; 1 }()]: the constants, and with
\* them the body of the function, are those the Compiler builds
S_unbalanced ==
    <<Expr(ExpArray(<<Lit(5),
        ExpCall(ExpFunction(<<>>,
             StmtBlock(<<Expr(ExpIf(ExpBoolean(TRUE), StmtBlock(<<>>), <<>>)),
                         Expr(ExpIf(ExpBoolean(TRUE), StmtBlock(<<>>), <<>>)),
                         Expr(Lit(1))>>)),
         <<>>)>>))>>

R_unbalanced ==
    Assembled(
        <<make(OpConstant, <<0>>), make(OpClosure, <<2, 0>>), make(OpCall, <<0>>),
          make(OpArray, <<2>>), make(OpPop, <<>>)>>,
        Source(S_unbalanced).bytecode.constants)

\* [9, push([1], 2)]; len("ab", 1)
R_builtin_push ==
    Assembled(
        <<make(OpConstant, <<3>>),
          make(OpGetBuiltin, <<5>>), make(OpConstant, <<0>>), make(OpArray, <<1>>),
          make(OpConstant, <<1>>), make(OpCall, <<2>>), make(OpArray, <<2>>),
          make(OpPop, <<>>),
          make(OpGetBuiltin, <<0>>), make(OpConstant, <<2>>),
          make(OpConstant, <<0>>), make(OpCall, <<2>>), make(OpPop, <<>>)>>,
        <<Integer(1), Integer(2), String(<<"a", "b">>), Integer(9)>>)

\* 7, then OpClosure 1 1 on a constant that is the integer 3
R_not_function ==
    Assembled(<<make(OpConstant, <<0>>), make(OpClosure, <<1, 1>>),
                make(OpPop, <<>>)>>,
              <<Integer(7), Integer(3)>>)

\* A byte that is no opcode, after OpTrue
R_invalid == Assembled(<<make(OpTrue, <<>>), <<255>>>>, <<>>)

\* The largest number of parameters and of arguments of the calls below
MaxArgs == 2

\* let g = 9; [7, fn(p1, .., pP) { pP }(11, .., 10 + n)]
\* (the body is 4 when P = 0)
R_arity(P, n) ==
    Assembled(
        <<make(OpConstant, <<1>>), make(OpSetGlobal, <<0>>),
          make(OpConstant, <<2>>), make(OpClosure, <<3, 0>>)>>
        \o [i \in 1..n |-> make(OpConstant, <<3 + i>>)]
        \o <<make(OpCall, <<n>>), make(OpArray, <<2>>), make(OpPop, <<>>)>>,
        <<Integer(4), Integer(9), Integer(7),
          CompiledFunction(
              (IF P = 0 THEN make(OpConstant, <<0>>) ELSE make(OpGetLocal, <<P - 1>>))
              \o make(OpReturnValue, <<>>), P, P)>>
        \o [i \in 1..n |-> Integer(10 + i)])

\* The calls with 0..MaxArgs parameters and 0..MaxArgs arguments
R_arities ==
    [i \in 1..((MaxArgs + 1) * (MaxArgs + 1)) |->
        R_arity((i - 1) \div (MaxArgs + 1), (i - 1) % (MaxArgs + 1))]

\* The blocks that the if-expressions below take as consequence and as
\* alternative: { }, { 1 }, { 1; 2 }, { let a = 1; }, { if (true) { 3 } }
IfBlocks ==
    <<StmtBlock(<<>>),
      StmtBlock(<<Expr(Lit(1))>>),
      StmtBlock(<<Expr(Lit(1)), Expr(Lit(2))>>),
      StmtBlock(<<StmtLet("a", Lit(1))>>),
      StmtBlock(<<Expr(ExpIf(ExpBoolean(TRUE), StmtBlock(<<Expr(Lit(3))>>), <<>>))>>)>>

\* 8; if (<condition>) <consequence> [else <alternative>] at the top level,
\* or fn() { 8; if ... } when in_function
S_if_shape(condition, consequence, alternative, in_function) ==
    LET body == <<Expr(Lit(8)),
                  Expr(ExpIf(ExpBoolean(condition), consequence, alternative))>>
    IN  IF in_function THEN <<Expr(ExpFunction(<<>>, StmtBlock(body)))>> ELSE body

\* Every shape: 2 conditions, Len(IfBlocks) consequences, no alternative or
\* one of IfBlocks, at the top level or in a function
IfShapes ==
    LET B == Len(IfBlocks)
    IN  [i \in 1..(2 * B * (B + 1) * 2) |->
            LET j == i - 1
                alt == (j \div (2 * B)) % (B + 1)
            IN  S_if_shape(j % 2 = 0,
                           IfBlocks[((j \div 2) % B) + 1],
                           IF alt = 0 THEN <<>> ELSE <<IfBlocks[alt]>>,
                           j \div (2 * B * (B + 1)) = 1)]

\* The largest absolute value of a slice bound in the programs below
MaxBound == 3

\* Bound number k of a slice: none, true, or an integer of -MaxBound..MaxBound
slice_bound_expression(k) ==
    LET n == k - 2 - MaxBound
    IN  IF k = 0 THEN <<>>
        ELSE IF k = 1 THEN <<ExpBoolean(TRUE)>>
        ELSE IF n < 0 THEN <<ExpPrefix("-", Lit(-n))>>
        ELSE <<Lit(n)>>

\* [1, 2][start:stop] or "ab"[start:stop]
S_slice_shape(of_string, start, stop) ==
    <<Expr(ExpSliceIndex(IF of_string THEN ExpString(<<"a", "b">>)
                         ELSE ExpArray(<<Lit(1), Lit(2)>>),
                         slice_bound_expression(start),
                         slice_bound_expression(stop)))>>

\* Every pair of bounds, on the array and on the string
SliceShapes ==
    LET N == 2 * MaxBound + 3
    IN  [i \in 1..(2 * N * N) |->
            S_slice_shape((i - 1) \div (N * N) = 1,
                          ((i - 1) \div N) % N, (i - 1) % N)]

\* The source programs
\* 1 / 0
S_div_zero == <<Expr(ExpInfix("/", Lit(1), Lit(0)))>>

\* let a = 2; 7 / (a - 2); 3
S_div_zero_global ==
    <<StmtLet("a", Lit(2)),
      Expr(ExpInfix("/", Lit(7), ExpInfix("-", Id("a"), Lit(2)))),
      Expr(Lit(3))>>

Sources ==
    <<S_arith, S_compare, S_globals, S_if, S_index, S_string_eq, S_string_neq,
      S_return, S_if_empty, S_if_let, S_else_empty, S_call, S_parameters,
      S_free, S_div_zero, S_div_zero_global>> \o IfShapes \o SliceShapes

Programs ==
    R_arities \o
    [i \in DOMAIN Sources |-> Source(Sources[i])] \o
    <<R_closure, R_locals, R_noreturn, R_builtin, R_wrong_args,
      R_wrong_args_nested, R_wrong_args_inner, R_frame_overflow,
      R_stack_overflow, R_locals_overflow, R_unbalanced, R_invalid,
      R_not_function, R_builtin_push>>

(***************************************************************************)
(* VM::new and VM::run as a state machine                                  *)
(***************************************************************************)
\* VM::new(bytecode) for program p, which compiled without error
VM_new(p, source) ==
    /\ source.err = ""
    /\ prog = p
    /\ compiler = Compiler_new
    /\ constants = source.bytecode.constants
    /\ stack = [i \in 0..(STACK_SIZE - 1) |-> Null]
    /\ sp = 0
    /\ globals = <<>>
    /\ frames = <<Frame(Closure(CompiledFunction(source.bytecode.instructions,
                                                0, 0),
                                <<>>), 0)>>
    /\ frames_index = 1
    /\ status = "running"
    /\ error = ""
    /\ calls = <<>>
    /\ last_popped = Null
    /\ last_op = -1

\* The programs with their positions in the sequence
Numbered(programs) == {<<p, programs[p]>> : p \in DOMAIN programs}

Init == \E P \in Numbered(Programs) : VM_new(P[1], P[2])

\* The decoding at the head of the loop body
cur_ip == frames[frames_index].ip
cur_ins == frames[frames_index].cl.func.instructions
\* The loop condition of run()
in_loop == status = "running" /\ cur_ip < Len(cur_ins)
cur_byte == Byte(cur_ins, cur_ip)
\* The loop body is about to execute opcode op
at_op(op) == in_loop /\ cur_byte = op

\* History: the record of the closure call that a step starts: d is the
\* slot of the callee, ret the offset of the instruction after the OpCall,
\* saved the value that each slot below d written since the call had at
\* the call
call_record ==
    [d |-> sp - 1 - Byte(cur_ins, cur_ip + 1), ret |-> cur_ip + 2, saved |-> <<>>]

\* History: saved after a step that changes the slots in changed
saved_after(rec, changed) ==
    [i \in DOMAIN rec.saved \cup {j \in changed : j < rec.d} |->
        IF i \in DOMAIN rec.saved THEN rec.saved[i] ELSE stack[i]]

\* History: the call records after a step whose outcome is r
calls_after(r) ==
    LET changed == {i \in r.m.wr : r.m.stack[i] # stack[i]}
        kept == IF changed = {} THEN calls
                ELSE [k \in 1..Len(calls) |->
                        [calls[k] EXCEPT !.saved = saved_after(calls[k], changed)]]
    IN  IF r.m.frames_index = frames_index + 1 THEN Append(kept, call_record)
        ELSE IF r.m.frames_index = frames_index - 1 /\ kept # <<>>
             THEN SubSeq(kept, 1, Len(kept) - 1)
             ELSE kept

\* The state after one iteration of the loop whose arm had outcome r;
\* advance is FALSE for the arm that ends with 'continue' (OpCall), TRUE
\* for the arms that fall through to 'self.current_frame().ip = ip + 1'.
Commit(r, advance) ==
    /\ status' = IF r.res = "ok" THEN "running" ELSE r.res
    /\ error' = r.msg
    /\ stack' = r.m.stack
    /\ sp' = r.m.sp
    /\ globals' = r.m.globals
    /\ frames_index' = r.m.frames_index
    /\ frames' = IF r.res = "ok" /\ advance
                 THEN [r.m.frames EXCEPT ![r.m.frames_index].ip = r.ip + 1]
                 ELSE r.m.frames
    /\ last_popped' = r.m.popped
    /\ last_op' = cur_byte
    /\ calls' = calls_after(r)
    /\ UNCHANGED <<constants, prog, compiler>>

\* 'ip = pos - 1' with pos = 0 underflows usize: a panic in a build with
\* overflow checks, a wrap-around (undone by the final ip + 1) otherwise
jump_outcomes(r) == IF r.res = "ok" /\ r.ip = -1 THEN {r, Panic(r.m)} ELSE {r}

InvalidOpcode ==
    /\ in_loop /\ ~try_from_ok(cur_byte)
    /\ Commit(Err(Machine, "Invalid opcode: " \o ToString(cur_byte)), TRUE)

DoOpConstant ==
    at_op(OpConstant) /\ Commit(run_OpConstant(Machine, constants, cur_ins, cur_ip), TRUE)

DoOpPop == at_op(OpPop) /\ Commit(run_OpPop(Machine, cur_ip), TRUE)

DoBinaryOp ==
    /\ in_loop /\ cur_byte \in {OpAdd, OpSub, OpMul, OpDiv}
    /\ Commit(WithIp(exec_binary_op(Machine, cur_byte), cur_ip), TRUE)

DoOpTrue == at_op(OpTrue) /\ Commit(WithIp(push(Machine, TRUE_OBJ), cur_ip), TRUE)

DoOpFalse == at_op(OpFalse) /\ Commit(WithIp(push(Machine, FALSE_OBJ), cur_ip), TRUE)

DoComparison ==
    /\ in_loop /\ cur_byte \in {OpEqual, OpNotEqual, OpGreaterThan}
    /\ Commit(WithIp(exec_comparison(Machine, cur_byte), cur_ip), TRUE)

DoOpBang == at_op(OpBang) /\ Commit(WithIp(exec_bang_op(Machine), cur_ip), TRUE)

DoOpMinus == at_op(OpMinus) /\ Commit(WithIp(exec_minus_op(Machine), cur_ip), TRUE)

DoOpJump ==
    /\ at_op(OpJump)
    /\ \E r \in jump_outcomes(run_OpJump(Machine, cur_ins, cur_ip)) : Commit(r, TRUE)

DoOpJumpNotTruthy ==
    /\ at_op(OpJumpNotTruthy)
    /\ \E r \in jump_outcomes(run_OpJumpNotTruthy(Machine, cur_ins, cur_ip)) :
           Commit(r, TRUE)

DoOpNull == at_op(OpNull) /\ Commit(WithIp(push(Machine, Null), cur_ip), TRUE)

DoOpSetGlobal ==
    at_op(OpSetGlobal) /\ Commit(run_OpSetGlobal(Machine, cur_ins, cur_ip), TRUE)

DoOpGetGlobal ==
    at_op(OpGetGlobal) /\ Commit(run_OpGetGlobal(Machine, cur_ins, cur_ip), TRUE)

DoOpArray == at_op(OpArray) /\ Commit(run_OpArray(Machine, cur_ins, cur_ip), TRUE)

DoOpHash == at_op(OpHash) /\ Commit(run_OpHash(Machine, cur_ins, cur_ip), TRUE)

DoOpIndex == at_op(OpIndex) /\ Commit(run_OpIndex(Machine, cur_ip), TRUE)

DoOpSliceIndex == at_op(OpSliceIndex) /\ Commit(run_OpSliceIndex(Machine, cur_ip), TRUE)

DoOpCall == at_op(OpCall) /\ Commit(run_OpCall(Machine, cur_ins, cur_ip), FALSE)

DoOpReturnValue == at_op(OpReturnValue) /\ Commit(run_OpReturnValue(Machine), TRUE)

DoOpReturn == at_op(OpReturn) /\ Commit(run_OpReturn(Machine), TRUE)

DoOpSetLocal ==
    at_op(OpSetLocal) /\ Commit(run_OpSetLocal(Machine, cur_ins, cur_ip), TRUE)

DoOpGetLocal ==
    at_op(OpGetLocal) /\ Commit(run_OpGetLocal(Machine, cur_ins, cur_ip), TRUE)

DoOpGetBuiltin ==
    at_op(OpGetBuiltin) /\ Commit(run_OpGetBuiltin(Machine, cur_ins, cur_ip), TRUE)

DoOpClosure ==
    at_op(OpClosure) /\ Commit(run_OpClosure(Machine, constants, cur_ins, cur_ip), TRUE)

DoOpGetFree ==
    at_op(OpGetFree) /\ Commit(run_OpGetFree(Machine, cur_ins, cur_ip), TRUE)

DoOpCurrentClosure ==
    at_op(OpCurrentClosure) /\ Commit(run_OpCurrentClosure(Machine, cur_ip), TRUE)

\* The loop condition is false: run() returns Ok(())
RunReturnsOk ==
    /\ status = "running" /\ ~(cur_ip < Len(cur_ins))
    /\ status' = "ok"
    /\ UNCHANGED <<constants, stack, sp, globals, frames, frames_index, error,
                   prog, compiler, calls, last_popped, last_op>>

Next ==
    \/ InvalidOpcode
    \/ DoOpConstant
    \/ DoOpPop
    \/ DoBinaryOp
    \/ DoOpTrue
    \/ DoOpFalse
    \/ DoComparison
    \/ DoOpBang
    \/ DoOpMinus
    \/ DoOpJump
    \/ DoOpJumpNotTruthy
    \/ DoOpNull
    \/ DoOpSetGlobal
    \/ DoOpGetGlobal
    \/ DoOpArray
    \/ DoOpHash
    \/ DoOpIndex
    \/ DoOpSliceIndex
    \/ DoOpCall
    \/ DoOpReturnValue
    \/ DoOpReturn
    \/ DoOpSetLocal
    \/ DoOpGetLocal
    \/ DoOpGetBuiltin
    \/ DoOpClosure
    \/ DoOpGetFree
    \/ DoOpCurrentClosure
    \/ RunReturnsOk

Spec == Init /\ [][Next]_vars

(***************************************************************************)
(* src/repl/mod.rs: the read-eval-print loop in compiled mode.  One        *)
(* Compiler and one VM serve every input; an input is the syntax tree of   *)
(* a line that parsed.                                                     *)
(***************************************************************************)
\* The number of lines read in one session
MaxCycles == 4

L_let_a == <<StmtLet("a", ExpInteger(5))>>
L_a == <<StmtExpression(ExpIdentifier("a"))>>
L_let_b == <<StmtLet("b", ExpInteger(7))>>
L_b == <<StmtExpression(ExpIdentifier("b"))>>
\* fn() { x }: x is undefined, the error is returned inside the function scope
L_undefined == <<StmtExpression(ExpFunction(<<>>,
                    StmtBlock(<<StmtExpression(ExpIdentifier("x"))>>)))>>
\* -true: compiles, run() returns an error
L_minus_true == <<StmtExpression(ExpPrefix("-", ExpBoolean(TRUE)))>>

ReplLines == <<L_let_a, L_a, L_let_b, L_b, L_undefined, L_minus_true>>

\* VM::default
VM_default ==
    /\ constants = <<>>
    /\ stack = [i \in 0..(STACK_SIZE - 1) |-> Null]
    /\ sp = 0
    /\ globals = <<>>
    /\ frames = <<>>
    /\ frames_index = 1

\* VM::reset(bytecode): the globals are not assigned
VM_reset(code) ==
    /\ frames' = <<Frame(Closure(CompiledFunction(code.instructions, 0, 0), <<>>), 0)>>
    /\ frames_index' = 1
    /\ constants' = code.constants
    /\ stack' = [i \in 0..(STACK_SIZE - 1) |-> Null]
    /\ sp' = 0
    /\ UNCHANGED globals

\* start(), before the loop
ReplInit ==
    /\ compiler = Compiler_new
    /\ VM_default
    /\ prog = <<>>
    /\ status = "idle"
    /\ error = ""
    /\ calls = <<>>
    /\ last_popped = Null
    /\ last_op = -1

\* History: the lines read so far with the result of the last one filled in
lines_read ==
    [k \in 1..Len(prog) |->
        IF k = Len(prog) /\ prog[k].result = "run"
        THEN [prog[k] EXCEPT !.result = status] ELSE prog[k]]

\* The loop body from compiler.compile(&program) to the call of vm.run(),
\* for line i on which compile left the compiler as c
compile_and_reset(i, c) ==
    /\ compiler' = Compiler_reset(c)
    /\ IF c.err # ""
       THEN /\ status' = "error"
            /\ error' = c.err
            /\ prog' = Append(lines_read, [line |-> i, result |-> "compile error"])
            /\ UNCHANGED <<constants, stack, sp, globals, frames, frames_index,
                           calls, last_popped, last_op>>
       ELSE /\ VM_reset(bytecode(c))
            /\ status' = "running"
            /\ error' = ""
            /\ prog' = Append(lines_read, [line |-> i, result |-> "run"])
            /\ calls' = <<>>
            /\ last_popped' = Null
            /\ last_op' = -1

\* One more line is read once run() has returned (a panic ends the process)
ReplCycle ==
    /\ status \in {"idle", "ok", "error"}
    /\ Len(prog) < MaxCycles
    /\ \E i \in DOMAIN ReplLines :
          compile_and_reset(i, compile(compiler, ReplLines[i]))

\* vm.run() of a line: the arms of run() that the lines reach
ReplNext ==
    \/ ReplCycle
    \/ DoOpConstant
    \/ DoOpPop
    \/ DoOpTrue
    \/ DoOpMinus
    \/ DoOpSetGlobal
    \/ DoOpGetGlobal
    \/ DoOpSetLocal
    \/ DoOpGetLocal
    \/ RunReturnsOk

ReplSpec == ReplInit /\ [][ReplNext]_vars

(***************************************************************************)
(* src/compiler/mod.rs: one Compiler in the middle of a compilation.  The  *)
(* steps are the calls that compile_node makes while it walks nested       *)
(* function literals: enter_scope at the head of a function literal, a     *)
(* 'let' statement or an identifier inside the body, leave_scope at the    *)
(* end.  prog is the sequence of the steps taken.                          *)
(***************************************************************************)
\* The number of steps of one compilation, and the depth of nested functions
MaxSteps == 6
MaxDepth == 3

Names == {"c", "d"}

CompilerInit ==
    /\ compiler = Compiler_new
    /\ VM_default
    /\ prog = <<>>
    /\ status = "idle"
    /\ error = ""
    /\ calls = <<>>
    /\ last_popped = Null
    /\ last_op = -1

\* The compiler can take one more step: no step has returned an error
compiling == compiler.err = "" /\ Len(prog) < MaxSteps

\* The step leaves the compiler as c
compiler_step(op, name, c) ==
    /\ compiler' = c
    /\ prog' = Append(prog, [op |-> op, name |-> name])
    /\ UNCHANGED <<constants, stack, sp, globals, frames, frames_index, status,
                   error, calls, last_popped, last_op>>

\* compile_node of 'let name = 1;' or of the expression statement 'name;'
compile_node(node) ==
    compiler_step(IF node.k = "Let" THEN node.k \o " " \o node.value.k ELSE node.k,
                  IF node.k = "Let" THEN node.name ELSE node.value.name,
                  compile_statement(compiler, node))

CompileLet == compiling /\ \E n \in Names : compile_node(StmtLet(n, Lit(1)))

CompileIdentifier == compiling /\ \E n \in Names : compile_node(Expr(Id(n)))

\* compile_node of 'let name = fn() { name };'
CompileLetFunction ==
    /\ compiling
    /\ \E n \in Names :
          compile_node(StmtLet(n, ExpFunction(<<>>, StmtBlock(<<Expr(Id(n))>>))))

EnterScope ==
    /\ compiling /\ compiler.scope_index < MaxDepth
    /\ compiler_step("enter_scope", "", enter_scope(compiler))

LeaveScope ==
    /\ compiling /\ compiler.scope_index > 0
    /\ compiler_step("leave_scope", "", leave_scope(compiler))

CompilerNext ==
    \/ CompileLet
    \/ CompileIdentifier
    \/ CompileLetFunction
    \/ EnterScope
    \/ LeaveScope

CompilerSpec == CompilerInit /\ [][CompilerNext]_vars

(***************************************************************************)
(* src/compiler/symbol_table/mod.rs: a chain of symbol tables and the      *)
(* calls that src/compiler/symbol_table/tests.rs makes on any table of it. *)
(* The chain is the symbol table of a new Compiler; prog holds the last    *)
(* call with the binding it replaced, the number of calls and, per table,  *)
(* the number of define calls.                                             *)
(***************************************************************************)
\* The number of calls, and the number of tables of the chain
MaxCalls == 3
MaxTables == 4

\* A chain of 1 .. MaxTables new tables; there is no VM
SymbolInit ==
    /\ \E depth \in 1..MaxTables :
          /\ compiler = [Compiler_new EXCEPT
                            !.symbol_table = [k \in 1..depth |-> SymbolTable_new]]
          /\ prog = [last |-> [op |-> "new", lvl |-> depth, name |-> "",
                               symbol |-> <<>>, shadowed |-> <<>>],
                     defines |-> [k \in 1..depth |-> 0], n |-> 0]
    /\ constants = <<>> /\ stack = <<>> /\ sp = 0
    /\ globals = <<>> /\ frames = <<>> /\ frames_index = 1
    /\ status = "idle"
    /\ error = ""
    /\ calls = <<>>
    /\ last_popped = Null
    /\ last_op = -1

\* The binding of name that a defining call on table lvl replaces (an Option)
shadowed_by(op, lvl, name) ==
    IF op \in {"define", "define_builtin", "define_function_name"}
       /\ name \in DOMAIN compiler.symbol_table[lvl].store
    THEN <<compiler.symbol_table[lvl].store[name]>>
    ELSE <<>>

\* The call op(name) on table lvl leaves the chain as r.tables and returns
\* r.symbol (an Option); defined is 1 for a call of define
symbol_call(op, lvl, name, r, defined) ==
    /\ prog.n < MaxCalls
    /\ compiler' = [compiler EXCEPT !.symbol_table = r.tables]
    /\ prog' = [last |-> [op |-> op, lvl |-> lvl, name |-> name,
                          symbol |-> r.symbol,
                          shadowed |-> shadowed_by(op, lvl, name)],
                defines |-> [k \in 1..Len(r.tables) |->
                                IF k > Len(prog.defines) THEN 0
                                ELSE IF k = lvl THEN prog.defines[k] + defined
                                ELSE prog.defines[k]],
                n |-> prog.n + 1]
    /\ UNCHANGED <<constants, stack, sp, globals, frames, frames_index, status,
                   error, calls, last_popped, last_op>>

\* A returned Symbol as an Option
Some(r) == [tables |-> r.tables, symbol |-> <<r.symbol>>]

\* SymbolTable::new(Some(table)) on the innermost table
SymNew ==
    /\ Len(compiler.symbol_table) < MaxTables
    /\ symbol_call("new", Len(compiler.symbol_table) + 1, "",
                   [tables |-> Append(compiler.symbol_table, SymbolTable_new),
                    symbol |-> <<>>], 0)

SymDefine ==
    \E lvl \in DOMAIN compiler.symbol_table, n \in Names :
        symbol_call("define", lvl, n, Some(define(compiler.symbol_table, lvl, n)), 1)

\* define_builtin(i, name) on the outermost table, as for the BUILTINS list
SymDefineBuiltin ==
    /\ prog.n < MaxCalls
    /\ \E i \in {0, 5}, n \in Names :
          symbol_call("define_builtin", 1, n,
                      Some(define_builtin(compiler.symbol_table, 1, i, n)), 0)

SymDefineFunctionName ==
    \E lvl \in DOMAIN compiler.symbol_table, n \in Names :
        symbol_call("define_function_name", lvl, n,
                    Some(define_function_name(compiler.symbol_table, lvl, n)), 0)

\* table.resolve(name) on table lvl: the tables inside it are not reached
SymResolve ==
    \E lvl \in DOMAIN compiler.symbol_table, n \in Names :
        LET r == resolve(SubSeq(compiler.symbol_table, 1, lvl), lvl, n)
        IN  symbol_call("resolve", lvl, n,
                        [tables |-> r.tables
                            \o SubSeq(compiler.symbol_table, lvl + 1,
                                      Len(compiler.symbol_table)),
                         symbol |-> r.symbol], 0)

SymbolNext ==
    \/ SymNew
    \/ SymDefine
    \/ SymDefineBuiltin
    \/ SymDefineFunctionName
    \/ SymResolve

SymbolSpec == SymbolInit /\ [][SymbolNext]_vars

(***************************************************************************)
(* make and read_operands on one instruction: an opcode and its operands   *)
(* are drawn, make encodes them and read_operands decodes the bytes after  *)
(* the opcode.  prog holds the inputs and the two results (Options).       *)
(* instructions_string runs on the instruction followed by the bytes of    *)
(* tail: prog.i is its offset i, prog.lines the number of lines it wrote   *)
(* and prog.string where it stands.                                        *)
(***************************************************************************)
\* The number of lines of instructions_string that are followed
MaxLines == 3
\* What follows the instruction: nothing, OpAdd, OpConstant without its
\* operand, and two bytes that are no opcode
Tails == {<<>>, <<OpAdd>>, <<OpConstant>>, <<31>>, <<255, OpAdd>>}
\* Operand values around the limits of one and two bytes
OperandValues == {0, 1, 254, 255, 256, 65534, 65535, 65536}

\* The operand tuples with one value per declared width
RECURSIVE OperandTuples(_)
OperandTuples(widths) ==
    IF widths = <<>> THEN {<<>>}
    ELSE {<<v>> \o t : v \in OperandValues, t \in OperandTuples(Tail(widths))}

CodeInit ==
    /\ \E op \in OpConstant..OpCurrentClosure :
          \E operands \in OperandTuples(operand_widths(op)) :
             \E tail \in Tails :
                prog = [op |-> op, operands |-> operands, made |-> <<>>,
                        read |-> <<>>, tail |-> tail, i |-> 0, lines |-> 0,
                        string |-> "loop"]
    /\ compiler = Compiler_new
    /\ constants = <<>> /\ stack = <<>> /\ sp = 0
    /\ globals = <<>> /\ frames = <<>> /\ frames_index = 1
    /\ status = "idle"
    /\ error = ""
    /\ calls = <<>>
    /\ last_popped = Null
    /\ last_op = -1

\* let instruction = make(op, operands)
CodeMake ==
    /\ prog.made = <<>>
    /\ prog' = [prog EXCEPT !.made = <<make(prog.op, prog.operands)>>]
    /\ UNCHANGED <<constants, stack, sp, globals, frames, frames_index, status,
                   error, compiler, calls, last_popped, last_op>>

\* read_operands(&op.lookup(), &instruction[1..])
CodeReadOperands ==
    /\ prog.made # <<>> /\ prog.read = <<>>
    /\ prog' = [prog EXCEPT !.read = <<read_operands(operand_widths(prog.op),
                                                    Tail(prog.made[1]))>>]
    /\ UNCHANGED <<constants, stack, sp, globals, frames, frames_index, status,
                   error, compiler, calls, last_popped, last_op>>

\* The argument of instructions_string
disassembled == prog.made[1] \o prog.tail

\* One iteration of the loop of instructions_string at offset i: the new
\* offset, or "panic" when read_operands indexes past the end
instructions_string_step(ins, i) ==
    IF ~try_from_ok(Byte(ins, i)) THEN [i |-> i, string |-> "loop"]
    ELSE IF i + 1 + SumSeq(operand_widths(Byte(ins, i))) > Len(ins)
         THEN [i |-> i, string |-> "panic"]
         ELSE [i |-> i + 1 + read_operands(operand_widths(Byte(ins, i)),
                                           SubSeq(ins, i + 2, Len(ins))).offset,
               string |-> "loop"]

\* The caller goes on to instructions_string(&instruction ++ tail)
string_called == prog.made # <<>> /\ prog.string = "loop"

CodeStringLine ==
    /\ string_called
    /\ prog.i < Len(disassembled)
    /\ prog.lines < MaxLines
    /\ LET r == instructions_string_step(disassembled, prog.i)
       IN  prog' = [prog EXCEPT !.i = r.i, !.string = r.string,
                                !.lines = IF r.string = "loop" THEN @ + 1 ELSE @]
    /\ UNCHANGED <<constants, stack, sp, globals, frames, frames_index, status,
                   error, compiler, calls, last_popped, last_op>>

\* The loop condition is false: instructions_string returns out
CodeStringReturns ==
    /\ string_called
    /\ ~(prog.i < Len(disassembled))
    /\ prog' = [prog EXCEPT !.string = "returned"]
    /\ UNCHANGED <<constants, stack, sp, globals, frames, frames_index, status,
                   error, compiler, calls, last_popped, last_op>>

CodeNext == CodeMake \/ CodeReadOperands \/ CodeStringLine \/ CodeStringReturns

CodeSpec == CodeInit /\ [][CodeNext]_vars

(***************************************************************************)
(* The built-ins on arrays, run by the VM: let a = [...]; followed by one  *)
(* call on a.  prog holds the call, the elements of a and the value v.     *)
(***************************************************************************)
\* The largest number of elements of the array
MaxElements == 2
\* The constants of the programs: two elements, and v after them
Elements == <<Integer(1), Integer(2)>>
PushValues == {Integer(3), Integer(1), String(<<"a">>)}
\* The positions in Elements of the elements of the array
ElementChoices == UNION {[1..k -> DOMAIN Elements] : k \in 0..MaxElements}
BuiltinCalls == {"len(push(a, v))", "last(push(a, v))", "push(a, v)",
                 "first(a)", "last(a)", "rest(a)"}

\* The position of a built-in in BUILTINS (the operand of OpGetBuiltin)
builtin_index(name) == CHOOSE i \in 0..(Len(BUILTINS) - 1) : BUILTINS[i + 1] = name

get_a == make(OpGetGlobal, <<0>>)
get_v == make(OpConstant, <<Len(Elements)>>)
push_a_v == <<make(OpGetBuiltin, <<builtin_index("push")>>), get_a, get_v,
              make(OpCall, <<2>>)>>
call_on_a(name) == <<make(OpGetBuiltin, <<builtin_index(name)>>), get_a,
                     make(OpCall, <<1>>)>>
call_on_push(name) == <<make(OpGetBuiltin, <<builtin_index(name)>>)>> \o push_a_v
                      \o <<make(OpCall, <<1>>)>>

\* The instructions of the expression statement
call_instructions(call) ==
    CASE call = "len(push(a, v))" -> call_on_push("len")
      [] call = "last(push(a, v))" -> call_on_push("last")
      [] call = "push(a, v)" -> push_a_v
      [] call = "first(a)" -> call_on_a("first")
      [] call = "last(a)" -> call_on_a("last")
      [] OTHER -> call_on_a("rest")

\* let a = [elements]; call;
R_array_call(call, choice, v) ==
    Assembled([k \in 1..Len(choice) |-> make(OpConstant, <<choice[k] - 1>>)]
              \o <<make(OpArray, <<Len(choice)>>), make(OpSetGlobal, <<0>>)>>
              \o call_instructions(call) \o <<make(OpPop, <<>>)>>,
              Append(Elements, v))

BuiltinInit ==
    \E call \in BuiltinCalls, choice \in ElementChoices, v \in PushValues :
        VM_new([call |-> call, a |-> [k \in 1..Len(choice) |-> Elements[choice[k]]],
                v |-> v],
               R_array_call(call, choice, v))

BuiltinNext ==
    \/ DoOpConstant
    \/ DoOpArray
    \/ DoOpSetGlobal
    \/ DoOpGetGlobal
    \/ DoOpGetBuiltin
    \/ DoOpCall
    \/ DoOpPop
    \/ RunReturnsOk

BuiltinSpec == BuiltinInit /\ [][BuiltinNext]_vars

(***************************************************************************)
(* src/parser/mod.rs: parse_program on the token sequences over Tokens.    *)
(* A parser state p holds the tokens, the position pos of cur_token (the   *)
(* peek token is the one after it), the pending calls (stack, innermost    *)
(* last), where the innermost call stands (mode) and the length of the     *)
(* error list.  The tokens are those of if and fn expressions with         *)
(* identifiers, parentheses and braces; the arms of the parser that need   *)
(* another token are not reached.                                          *)
(***************************************************************************)
\* The number of pieces of an input, and the number of errors kept beyond
\* one for each token
MaxPieces == 4
MaxErrors == 3
\* The inputs are made of these: x, if (x) {, fn() {, fn(x) {, }, (, ), {
Pieces == {<<"Ident">>, <<"If", "LParen", "Ident", "RParen", "LBrace">>,
           <<"Function", "LParen", "RParen", "LBrace">>,
           <<"Function", "LParen", "Ident", "RParen", "LBrace">>,
           <<"RBrace">>, <<"LParen">>, <<"RParen">>, <<"LBrace">>}
Inputs == {Concat(pieces) : pieces \in UNION {[1..n -> Pieces] : n \in 0..MaxPieces}}

\* Lexer::next_token returns Eof at the end of the input, again and again
token_at(p, i) == IF i <= Len(p.tokens) THEN p.tokens[i] ELSE "Eof"
cur_token(p) == token_at(p, p.pos)
peek_token(p) == token_at(p, p.pos + 1)
\* Parser::next_token
next_token(p) == [p EXCEPT !.pos = IF @ <= Len(p.tokens) THEN @ + 1 ELSE @]

top_call(p) == p.stack[Len(p.stack)]
enter(p, frame, mode) == [p EXCEPT !.stack = Append(@, frame), !.mode = mode]
return(p, mode) == [p EXCEPT !.stack = SubSeq(@, 1, Len(@) - 1), !.mode = mode]
\* return Err(anyhow!(...)), and the ? that passes it on
parse_error(p) == [p EXCEPT !.mode = "Err"]

\* parse_block_statement up to its loop
parse_block_statement(p) == enter(next_token(p), "Block", "loop")

\* parse_function_parameters: "Ok" with the closing parenthesis as
\* cur_token, or "Err"
RECURSIVE parse_function_parameters(_)
parse_function_parameters(p) ==
    IF peek_token(p) # "RParen"
    THEN LET p1 == next_token(p)
         IN  IF cur_token(p1) # "Ident" THEN parse_error(p1)
             ELSE IF peek_token(p1) \notin {"Comma", "RParen"} THEN parse_error(p1)
             ELSE IF peek_token(p1) = "Comma"
                  THEN parse_function_parameters(next_token(p1))
                  ELSE parse_function_parameters(p1)
    ELSE [next_token(p) EXCEPT !.mode = "Ok"]

\* parse_function up to the loop of the body
parse_function(p) ==
    IF peek_token(p) # "LParen" THEN parse_error(p)
    ELSE LET p1 == parse_function_parameters(next_token(p))
         IN  IF p1.mode = "Err" THEN p1
             ELSE IF peek_token(p1) # "LBrace" THEN parse_error(p1)
             ELSE parse_block_statement(next_token(p1))

\* parse_if up to the call of parse_expression for the condition
parse_if(p) ==
    IF peek_token(p) # "LParen" THEN parse_error(p)
    ELSE enter(next_token(next_token(p)), "IfCondition", "parse_expression")

\* parse_if from the condition to the loop of the consequence
parse_if_consequence(p) ==
    IF peek_token(p) # "RParen" THEN parse_error(p)
    ELSE LET p1 == next_token(p)
         IN  IF peek_token(p1) # "LBrace" THEN parse_error(p1)
             ELSE parse_block_statement(next_token(return(p1, "loop")))

\* parse_hash up to the call of parse_expression for the first key
parse_hash(p) ==
    IF peek_token(p) # "RBrace"
    THEN enter(next_token(p), "HashKey", "parse_expression")
    ELSE [next_token(p) EXCEPT !.mode = "infix"]

\* parse_group up to the call of parse_expression
parse_group(p) == enter(next_token(p), "Group", "parse_expression")

\* parse_prefix
parse_prefix(p) ==
    CASE cur_token(p) = "Ident" -> [p EXCEPT !.mode = "infix"]
      [] cur_token(p) = "LBrace" -> parse_hash(p)
      [] cur_token(p) = "LParen" -> parse_group(p)
      [] cur_token(p) = "If" -> parse_if(p)
      [] cur_token(p) = "Function" -> parse_function(p)
      [] OTHER -> parse_error(p)

\* parse_call and the loop of parse_expressions(RParen) up to the call of
\* parse_expression for an argument, or to its end
parse_expressions(p) ==
    IF peek_token(p) # "RParen"
    THEN enter(next_token(p), "Arguments", "parse_expression")
    ELSE [next_token(p) EXCEPT !.mode = "infix"]

\* The loop of parse_expression(Lowest): of the tokens of Pieces only
\* LParen has a precedence above Lowest
parse_infix(p) ==
    IF peek_token(p) = "LParen" THEN parse_expressions(next_token(p))
    ELSE return(p, "Ok")

\* The caller of parse_expression gets Ok(expression)
expression_parsed(p) ==
    CASE top_call(p) = "Statement" ->
            return(IF peek_token(p) = "Semicolon" THEN next_token(p) ELSE p,
                   "push")
      [] top_call(p) = "Group" ->
            IF peek_token(p) # "RParen" THEN parse_error(p)
            ELSE return(next_token(p), "infix")
      [] top_call(p) = "HashKey" ->
            IF peek_token(p) # "Colon" THEN parse_error(p)
            ELSE enter(next_token(next_token(p)), "HashValue", "parse_expression")
      [] top_call(p) = "HashValue" -> parse_error(p)
      [] top_call(p) = "Arguments" ->
            IF peek_token(p) \notin {"Comma", "RParen"} THEN parse_error(p)
            ELSE IF peek_token(p) = "Comma" THEN parse_expressions(next_token(return(p, "infix")))
            ELSE parse_expressions(return(p, "infix"))
      [] OTHER -> parse_if_consequence(p)

\* One step of the parser between two tests of a statement loop
parser_step(p) ==
    CASE p.mode = "statement" -> enter(p, "Statement", "parse_expression")
      [] p.mode = "parse_expression" -> parse_prefix(enter(p, "Expression", "prefix"))
      [] p.mode = "infix" -> parse_infix(p)
      [] p.mode = "Ok" -> expression_parsed(p)
      [] p.mode = "Err" ->
            IF top_call(p) \in {"Program", "Block"}
            THEN [next_token(p) EXCEPT !.errors = @ + 1, !.mode = "loop"]
            ELSE return(p, "Err")
      [] OTHER -> [next_token(p) EXCEPT !.mode = "loop"]

\* The parser runs on to the next test of a statement loop
RECURSIVE parse_to_loop(_)
parse_to_loop(p) == IF p.mode = "loop" THEN p ELSE parse_to_loop(parser_step(p))

\* Parser::new(lexer) followed by the call of parse_program
ParserInit ==
    /\ \E tokens \in Inputs :
          prog = [tokens |-> tokens, pos |-> 1, stack |-> <<"Program">>,
                  mode |-> "loop", errors |-> 0]
    /\ compiler = Compiler_new
    /\ constants = <<>> /\ stack = <<>> /\ sp = 0
    /\ globals = <<>> /\ frames = <<>> /\ frames_index = 1
    /\ status = "idle"
    /\ error = ""
    /\ calls = <<>>
    /\ last_popped = Null
    /\ last_op = -1

parser_moves(p) ==
    /\ prog' = p
    /\ UNCHANGED <<constants, stack, sp, globals, frames, frames_index, status,
                   error, compiler, calls, last_popped, last_op>>

\* One iteration of the loop of parse_program
ProgramStatement ==
    /\ prog.mode = "loop" /\ top_call(prog) = "Program"
    /\ cur_token(prog) # "Eof"
    /\ prog.errors < Len(prog.tokens) + MaxErrors
    /\ parser_moves(parse_to_loop([prog EXCEPT !.mode = "statement"]))

\* The loop of parse_program ends: parse_program returns the program
ProgramReturns ==
    /\ prog.mode = "loop" /\ top_call(prog) = "Program"
    /\ cur_token(prog) = "Eof"
    /\ parser_moves([prog EXCEPT !.mode = "returned"])

\* One iteration of the loop of parse_block_statement
BlockStatement ==
    /\ prog.mode = "loop" /\ top_call(prog) = "Block"
    /\ cur_token(prog) # "RBrace"
    /\ prog.errors < Len(prog.tokens) + MaxErrors
    /\ parser_moves(parse_to_loop([prog EXCEPT !.mode = "statement"]))

\* The loop of parse_block_statement ends: the if or fn expression is
\* parsed and its caller goes on
BlockReturns ==
    /\ prog.mode = "loop" /\ top_call(prog) = "Block"
    /\ cur_token(prog) = "RBrace"
    /\ parser_moves(parse_to_loop(return(prog, "infix")))

ParserNext == ProgramStatement \/ ProgramReturns \/ BlockStatement \/ BlockReturns

ParserSpec == ParserInit /\ [][ParserNext]_vars

(***************************************************************************)
(* Properties                                                              *)
(***************************************************************************)
\* The operand n of the OpCall about to execute, and the slot of its callee
call_num_args == Byte(cur_ins, cur_ip + 1)
call_slot == sp - 1 - call_num_args

\* The loop is about to execute OpCall n with a Closure in stack[sp - 1 - n]
closure_call ==
    /\ at_op(OpCall)
    /\ fits(cur_ins, cur_ip, 1)
    /\ call_slot \in 0..(STACK_SIZE - 1)
    /\ stack[call_slot].t = "Closure"

\* The closure call about to execute has as many arguments as parameters
arity_matches == stack[call_slot].func.num_parameters = call_num_args

\* The step pushes the frame of the callee and reserves its locals
frame_pushed ==
    LET callee == stack[call_slot]
        base_pointer == sp - call_num_args
    IN  /\ status' = "running"
        /\ frames_index' = frames_index + 1
        /\ Len(frames') = frames_index'
        /\ frames'[frames_index'] =
               [cl |-> callee, ip |-> 0, base_pointer |-> base_pointer]
        /\ sp' = base_pointer + callee.func.num_locals
        /\ \A i \in base_pointer..(sp - 1) : stack'[i] = stack[i]

\* C1, as stated: OpCall n on a Closure with n parameters pushes a frame
\* with base_pointer = sp - n, sets sp to base_pointer + num_locals, leaves
\* the arguments in place and continues at offset 0 of the callee.
C1_AsStated == [][(closure_call /\ arity_matches) => frame_pushed]_vars

\* C1: OpCall n on a Closure with n parameters, executed while fewer than
\* MAX_FRAMES frames are active, pushes a frame with base_pointer = sp - n,
\* sets sp to base_pointer + num_locals, leaves the n arguments in slots
\* base_pointer .. base_pointer + n - 1 and continues at offset 0 of the
\* callee's instructions.
C1_FramePushed ==
    [][(closure_call /\ arity_matches /\ frames_index < MAX_FRAMES)
          => frame_pushed]_vars

\* A call of a closure with MaxArgs parameters has just pushed its frame,
\* the arguments are the first locals
C1_Witness ==
    /\ status = "running" /\ last_op = OpCall /\ frames_index = 2
    /\ frames[2].ip = 0
    /\ frames[2].cl.func.num_parameters = MaxArgs
    /\ sp = frames[2].base_pointer + MaxArgs
    /\ \A i \in 1..MaxArgs : stack[frames[2].base_pointer + i - 1] = Integer(10 + i)

\* The step is a return from a closure call: OpReturnValue with a value on
\* the stack, or OpReturn, in a frame above the main frame
returning ==
    /\ in_loop /\ frames_index > 1 /\ calls # <<>>
    /\ \/ cur_byte = OpReturnValue /\ sp \in 1..STACK_SIZE
       \/ cur_byte = OpReturn

\* The value returned by the return about to execute
returned_value == IF cur_byte = OpReturn THEN Null ELSE stack[sp - 1]

\* The value that slot i below the callee had just before the current call
before_call(i) ==
    LET rec == calls[Len(calls)]
    IN  IF i \in DOMAIN rec.saved THEN rec.saved[i] ELSE stack[i]

\* C2: a return from a closure call made with the callee in slot d pops the
\* callee's frame, sets sp to d + 1, puts the returned value in stack[d],
\* leaves every slot below d as it was just before the call, and resumes
\* the caller at the instruction after its OpCall.
C2_Return ==
    [][returning =>
        LET rec == calls[Len(calls)]
        IN  /\ status' = "running"
            /\ frames_index' = frames_index - 1
            /\ Len(frames') = frames_index'
            /\ sp' = rec.d + 1
            /\ stack'[rec.d] = returned_value
            /\ \A i \in 0..(rec.d - 1) : stack'[i] = before_call(i)
            /\ frames'[frames_index'].ip = rec.ret]_vars

\* C3: OpCall n on a Closure with P # n parameters makes run() return the
\* error "wrong number of arguments: want=P, got=n"; no frame is pushed and
\* sp, the stack and the globals stay as they were.
C3_WrongArguments ==
    [][(closure_call /\ ~arity_matches) =>
        /\ status' = "error"
        /\ error' = "wrong number of arguments: want="
                    \o ToString(stack[call_slot].func.num_parameters)
                    \o ", got=" \o ToString(call_num_args)
        /\ frames_index' = frames_index
        /\ Len(frames') = Len(frames)
        /\ \A k \in 1..Len(frames) : frames'[k].cl = frames[k].cl
                                      /\ frames'[k].base_pointer = frames[k].base_pointer
        /\ sp' = sp /\ stack' = stack /\ globals' = globals]_vars

\* run() has returned the error of a call with 1 argument of a closure
\* with 2 parameters, made with values on the stack and a global set
C3_Witness ==
    /\ status = "error"
    /\ error = "wrong number of arguments: want=2, got=1"
    /\ last_op = OpCall
    /\ sp = 3 /\ stack[0] = Integer(7) /\ stack[2] = Integer(11)
    /\ globals # <<>>

\* The program being run is a source program, and the evaluator gives it
\* a value (it is well-typed)
evaluated == eval(Programs[prog].program[1])
well_typed == Programs[prog].program # <<>> /\ evaluated.err = ""

\* C4: when run() has ended on the bytecode of a well-typed source program,
\* it has returned Ok and the last popped element equals the value the
\* evaluator gives for the program.
C4_EvaluatorAndVMAgree ==
    (status # "running" /\ well_typed)
        => /\ status = "ok"
           /\ sp \in 0..(STACK_SIZE - 1)
           /\ last_popped_stack_elem = evaluated.val

\* C5: in the bytecode of a source program every OpPop finds a value to
\* remove, and when run() returns Ok every statement has brought sp back to
\* 0, its depth before the statement.
C5_OneValuePerExpression ==
    Programs[prog].program # <<>>
        => /\ at_op(OpPop) => sp >= 1
           /\ status = "ok" => sp = 0

\* C6: in every state of run(), 0 <= sp <= STACK_SIZE.
C6_SpInRange == sp >= 0 /\ sp <= STACK_SIZE

\* C7: OpReturnValue or OpReturn executed in the main frame makes run()
\* return an error.
C7_FrameUnderflowIsError ==
    [][(in_loop /\ cur_byte \in {OpReturnValue, OpReturn} /\ frames_index = 1)
          => status' = "error"]_vars

\* C8: there are never more than MAX_FRAMES frames; a closure call made
\* while MAX_FRAMES frames are active makes run() return "frame overflow"
\* and leaves the frame stack as long as it was.
C8_FrameLimit ==
    [][/\ frames_index' <= MAX_FRAMES
       /\ Len(frames') <= MAX_FRAMES
       /\ (closure_call /\ arity_matches /\ frames_index = MAX_FRAMES)
             => /\ status' = "error"
                /\ error' = "frame overflow"
                /\ frames_index' = frames_index
                /\ Len(frames') = Len(frames)]_vars

\* run() has returned "frame overflow" with MAX_FRAMES frames active
C8_Witness ==
    /\ status = "error" /\ error = "frame overflow" /\ last_op = OpCall
    /\ frames_index = MAX_FRAMES /\ Len(frames) = MAX_FRAMES

\* The opcodes whose arm starts with a push
push_ops ==
    {OpConstant, OpTrue, OpFalse, OpNull, OpGetGlobal, OpGetLocal,
     OpGetBuiltin, OpGetFree, OpCurrentClosure}

\* C9: an instruction that pushes, executed with sp = STACK_SIZE, makes
\* run() return "stack overflow" and changes neither sp nor the stack.
C9_PushOnFullStack ==
    [][(in_loop /\ cur_byte \in push_ops /\ sp = STACK_SIZE)
          => /\ status' = "error"
             /\ error' = "stack overflow"
             /\ sp' = sp
             /\ stack' = stack]_vars

\* run() has returned "stack overflow" for the push of a local on a full
\* stack
C9_Witness ==
    /\ status = "error" /\ error = "stack overflow" /\ last_op = OpGetLocal
    /\ sp = STACK_SIZE

\* The opcodes whose arm pops one value and does nothing else to the stack
pop_ops == {OpPop, OpJumpNotTruthy}

\* The opcodes whose arm pops one value and clears the slot it was in
set_ops == {OpSetGlobal, OpSetLocal}

\* C10, as stated: after every instruction that pops, and when run()
\* returns Ok, stack[sp] holds the value removed by the most recent pop.
C10_AsStated ==
    [][(status' \in {"running", "ok"} /\ last_op' \in pop_ops \cup set_ops)
          => stack'[sp'] = last_popped']_vars

\* C10: after OpPop and OpJumpNotTruthy, stack[sp] holds the value they
\* removed; after OpSetGlobal and OpSetLocal, stack[sp] is Null; when run()
\* returns Ok after an OpPop, last_popped_stack_elem() returns the value
\* that OpPop removed.
C10_LastPopped ==
    [][/\ (in_loop /\ cur_byte \in pop_ops /\ status' = "running")
             => sp' = sp - 1 /\ stack'[sp'] = stack[sp - 1]
       /\ (in_loop /\ cur_byte \in set_ops /\ status' = "running")
             => sp' = sp - 1 /\ stack'[sp'] = Null
       /\ (status = "running" /\ status' = "ok" /\ last_op = OpPop)
             => stack'[sp'] = last_popped]_vars

\* run() has returned Ok after "let one = 1; let two = one + one;
\* one + two": the last popped element is 3
C10_Witness ==
    /\ status = "ok" /\ last_op = OpPop
    /\ 1 \in DOMAIN globals /\ globals[1] = Integer(2)
    /\ last_popped_stack_elem = Integer(3)

\* The operands of the OpClosure about to be executed
closure_op == at_op(OpClosure) /\ fits(cur_ins, cur_ip, 3)
closure_const_index == read_u16(cur_ins, cur_ip + 1)
closure_num_free == Byte(cur_ins, cur_ip + 3)
closure_constant == constants[closure_const_index + 1]

\* C11: OpClosure c k on a CompiledFunction constant, with k values on the
\* stack, builds a closure whose free list is the k values that were on top
\* of the stack, bottom to top, and leaves it on top with sp = sp - k + 1;
\* on a constant that is not a CompiledFunction it makes run() return an
\* error and leaves sp and the stack as they were.
C11_Closure ==
    [][(closure_op /\ closure_const_index < Len(constants))
          => /\ (/\ closure_constant.t = "CompiledFunction"
                 /\ closure_num_free <= sp
                 /\ sp <= STACK_SIZE
                 /\ sp - closure_num_free < STACK_SIZE)
                   => /\ status' = "running"
                      /\ sp' = sp - closure_num_free + 1
                      /\ stack'[sp' - 1].t = "Closure"
                      /\ stack'[sp' - 1].func = closure_constant
                      /\ Len(stack'[sp' - 1].free) = closure_num_free
                      /\ \A i \in 1..closure_num_free :
                            stack'[sp' - 1].free[i]
                                = stack[sp - closure_num_free + i - 1]
                      /\ \A i \in 0..(sp - closure_num_free - 1) :
                            stack'[i] = stack[i]
             /\ closure_constant.t # "CompiledFunction"
                   => /\ status' = "error"
                      /\ sp' = sp
                      /\ stack' = stack]_vars

\* newAdder(1, 2) has built the closure of fn(c) { a + b + c } with the
\* free list [1, 2]
C11_Witness ==
    /\ status = "running" /\ last_op = OpClosure /\ frames_index = 2
    /\ sp >= 1 /\ stack[sp - 1].t = "Closure"
    /\ stack[sp - 1].free = <<Integer(1), Integer(2)>>

\* OpCall is about to be executed on a BuiltInFunction
builtin_call ==
    /\ at_op(OpCall) /\ fits(cur_ins, cur_ip, 1)
    /\ call_slot \in 0..(STACK_SIZE - 1)
    /\ stack[call_slot].t = "BuiltInFunction"

\* The top n stack values in push order
call_args == [i \in 1..call_num_args |-> stack[sp - call_num_args + i - 1]]

\* C12: OpCall n on a BuiltInFunction applies the built-in to the top n
\* stack values in push order; when it succeeds the result is in the
\* callee's slot, sp = sp - n, no frame is pushed and the frame's ip is at
\* the instruction after the OpCall; when it fails run() returns its error.
C12_BuiltinCall ==
    [][(builtin_call /\ sp <= STACK_SIZE)
          => LET result == builtin(stack[call_slot].name, call_args)
             IN  /\ result.res = "ok"
                    => /\ status' = "running"
                       /\ sp' = sp - call_num_args
                       /\ stack'[call_slot] = result.val
                       /\ \A i \in 0..(call_slot - 1) : stack'[i] = stack[i]
                       /\ frames_index' = frames_index
                       /\ Len(frames') = Len(frames)
                       /\ frames'[frames_index].ip = cur_ip + 2
                 /\ result.res # "ok"
                    => /\ status' = "error"
                       /\ error' = result.msg]_vars

\* push([1], 2) has returned [1, 2] into the slot above the 9
C12_Witness ==
    /\ status = "running" /\ last_op = OpCall /\ frames_index = 1
    /\ sp = 2 /\ stack[0] = Integer(9)
    /\ stack[1] = Array(<<Integer(1), Integer(2)>>)

\* The line read in cycle k, and whether it is 'let name = <integer>;' or
\* the expression statement 'name'
line_of(k) == ReplLines[prog[k].line]
is_let(line, name) == line[1].k = "Let" /\ line[1].name = name
is_read(line, name) == line = <<StmtExpression(ExpIdentifier(name))>>
\* Cycle k compiled and its run() returned Ok
cycle_ok(k) == lines_read[k].result = "ok"
\* The symbol that the compiler's current table resolves name to
symbol_of(name) ==
    resolve(compiler.symbol_table, Len(compiler.symbol_table), name).symbol

\* C13: once a cycle 'let n = v;' has succeeded, the compiler resolves n to a
\* GLOBAL symbol whose slot of the globals array holds v, and every later
\* cycle that reads n and succeeds leaves v as the last popped element.
C13_GlobalsPersist ==
    \A k \in 1..Len(prog) : \A n \in {"a", "b"} :
        (is_let(line_of(k), n) /\ cycle_ok(k) /\ status # "running")
        => /\ symbol_of(n) # <<>>
           /\ symbol_of(n)[1].scope = GLOBAL_SCOPE
           /\ globals_get(Machine, symbol_of(n)[1].index)
                  = Integer(line_of(k)[1].value.v)
           /\ (k < Len(prog) /\ is_read(line_of(Len(prog)), n) /\ status = "ok")
              => last_popped_stack_elem = Integer(line_of(k)[1].value.v)

\* C13, the part about VM.reset: a cycle that compiles clears the stack, sp
\* and the frames and leaves the globals as they were; a cycle that does
\* not compile leaves the whole VM as it was.
C13_ResetKeepsGlobals ==
    [][ReplCycle
       => /\ globals' = globals
          /\ status' = "running"
             => /\ sp' = 0
                /\ \A i \in 0..(STACK_SIZE - 1) : stack'[i] = Null
                /\ frames_index' = 1 /\ Len(frames') = 1
                /\ frames'[1].ip = 0 /\ frames'[1].base_pointer = 0
          /\ status' # "running"
             => UNCHANGED <<stack, sp, frames, frames_index, constants>>]_vars

\* A global survives a cycle that fails at run time
C13_Witness ==
    /\ Len(prog) = 3 /\ status = "ok"
    /\ prog[1].line = 1 /\ prog[2] = [line |-> 6, result |-> "error"]
    /\ prog[3].line = 2 /\ last_popped_stack_elem = Integer(5)

\* The slots of the globals array that this step or an earlier one wrote
global_slots == DOMAIN globals \cup DOMAIN globals'
\* globals[i] before and after the step
global_before(i) == globals_get([globals |-> globals], i)
global_after(i) == globals_get([globals |-> globals'], i)

\* C14: a step of run() leaves the constants as they were, and changes a
\* slot of the globals array only when it executes OpSetGlobal, and then
\* only the slot that the operand names.
C14_GlobalsAndConstants ==
    [][/\ constants' = constants
       /\ \A i \in global_slots :
            global_after(i) # global_before(i)
            => at_op(OpSetGlobal) /\ i = read_u16(cur_ins, cur_ip + 1)]_vars

\* let one = 1; let two = one + one: the second OpSetGlobal has stored 2 in
\* slot 1 and slot 0 still holds 1
C14_Witness ==
    /\ last_op = OpSetGlobal /\ status = "running"
    /\ DOMAIN globals = {0, 1}
    /\ globals[0] = Integer(1) /\ globals[1] = Integer(2)

\* The step being taken compiles the expression statement 'name;'
identifier_step ==
    /\ Len(prog') = Len(prog) + 1
    /\ prog'[Len(prog')].op = "Expression"
\* The symbol that resolve returns to that step (an Option)
resolved == symbol_of(prog'[Len(prog')].name)
\* The bytes that the step appends to the instructions of the current scope
emitted ==
    SubSeq(current_instructions(compiler'),
           Len(current_instructions(compiler)) + 1,
           Len(current_instructions(compiler')))
\* The load instruction for a symbol
load_of(symbol) ==
    CASE symbol.scope = GLOBAL_SCOPE -> make(OpGetGlobal, <<symbol.index>>)
      [] symbol.scope = LOCAL_SCOPE -> make(OpGetLocal, <<symbol.index>>)
      [] symbol.scope = BUILTIN_SCOPE -> make(OpGetBuiltin, <<symbol.index>>)
      [] symbol.scope = FREE_SCOPE -> make(OpGetFree, <<symbol.index>>)
      [] symbol.scope = FUNCTION_SCOPE -> make(OpCurrentClosure, <<>>)

\* C15: compiling an identifier that resolves emits the load instruction of
\* the symbol's scope with the symbol's index (followed, in an expression
\* statement, by OpPop) and returns no error.
C15_IdentifierLoads ==
    [][(identifier_step /\ resolved # <<>>)
       => /\ compiler'.err = ""
          /\ emitted = load_of(resolved[1]) \o make(OpPop, <<>>)]_vars

\* C15 for the two scopes that the Identifier arm tells apart
C15_GlobalAndLocalLoads ==
    [][(identifier_step /\ resolved # <<>>
        /\ resolved[1].scope \in {GLOBAL_SCOPE, LOCAL_SCOPE})
       => /\ compiler'.err = ""
          /\ emitted = load_of(resolved[1]) \o make(OpPop, <<>>)]_vars

\* The step being taken compiles 'let name = fn() { name };'
let_function_step ==
    /\ Len(prog') = Len(prog) + 1
    /\ prog'[Len(prog')].op = "Let Function"

\* C16: 'let name = fn() { name };' compiles without an error, at global
\* scope and inside another function, whether or not name was bound before.
C16_SelfReferenceCompiles ==
    [][let_function_step => compiler'.err = ""]_vars

\* The offsets at which the instructions of ins start, decoded from pos on
RECURSIVE instruction_starts(_, _)
instruction_starts(ins, pos) ==
    IF pos >= Len(ins) THEN {}
    ELSE {pos} \cup instruction_starts(
                        ins, pos + 1 + SumSeq(operand_widths(Byte(ins, pos))))

\* The jumps of one compilation scope
jumps_of(ins) ==
    {pos \in instruction_starts(ins, 0) :
        Byte(ins, pos) \in {OpJump, OpJumpNotTruthy}}

\* Every jump of the scope goes to the start of one of its instructions or
\* to its end
jumps_in_scope(ins) ==
    \A pos \in jumps_of(ins) :
        /\ pos + 2 < Len(ins)
        /\ read_u16(ins, pos + 1) # 9999
        /\ read_u16(ins, pos + 1) \in instruction_starts(ins, 0) \cup {Len(ins)}

\* The compilation scopes of the program being run: the main program and
\* the body of every function literal
compiled_scopes ==
    {Programs[prog].bytecode.instructions}
    \cup {constants[k].instructions :
            k \in {j \in DOMAIN constants : constants[j].t = "CompiledFunction"}}

\* C17: in a program compiled from source, every OpJump and OpJumpNotTruthy
\* of every compilation scope has as operand the offset of an instruction of
\* that scope or the scope's end, and never the placeholder 9999.
C17_JumpTargets ==
    Programs[prog].program # <<>>
    => \A ins \in compiled_scopes : jumps_in_scope(ins)

\* A program fn() { 8; if (..) { if (true) { 3 } } .. } has run: the function
\* body holds four jumps, one of them to its last instruction (the
\* OpReturnValue that replaced the final OpPop)
C17_Witness ==
    /\ status = "ok"
    /\ Programs[prog].program # <<>>
    /\ \E ins \in compiled_scopes :
          /\ ins # Programs[prog].bytecode.instructions
          /\ Cardinality(jumps_of(ins)) = 4
          /\ \E pos \in jumps_of(ins) : read_u16(ins, pos + 1) = Len(ins) - 1

\* The numbers of parameters of the function literals of a syntax tree, in
\* the order in which their compilation ends (inner literals first)
RECURSIVE parameters_in(_), parameters_in_all(_)
parameters_in_all(nodes) ==
    IF nodes = <<>> THEN <<>>
    ELSE parameters_in(Head(nodes)) \o parameters_in_all(Tail(nodes))
parameters_in(node) ==
    CASE node.k \in {"Let", "Return", "Expression"} -> parameters_in(node.value)
      [] node.k = "Block" -> parameters_in_all(node.statements)
      [] node.k = "Array" -> parameters_in_all(node.elements)
      [] node.k = "Hash" -> parameters_in_all(Concat(node.pairs))
      [] node.k = "Prefix" -> parameters_in(node.right)
      [] node.k = "Infix" -> parameters_in(node.left) \o parameters_in(node.right)
      [] node.k = "If" -> parameters_in(node.condition)
                          \o parameters_in(node.consequence)
                          \o parameters_in_all(node.alternative)
      [] node.k = "Function" -> parameters_in(node.body) \o <<Len(node.parameters)>>
      [] node.k = "Call" -> parameters_in(node.function)
                            \o parameters_in_all(node.arguments)
      [] node.k = "Index" -> parameters_in(node.left) \o parameters_in(node.index)
      [] node.k = "SliceIndex" -> parameters_in(node.left)
                                  \o parameters_in_all(node.start)
                                  \o parameters_in_all(node.stop)
      [] OTHER -> <<>>

\* The compiled functions of the constant pool, in pool order
compiled_functions ==
    LET F[k \in 0..Len(constants)] ==
            IF k = 0 THEN <<>>
            ELSE IF constants[k].t = "CompiledFunction"
                 THEN Append(F[k - 1], constants[k]) ELSE F[k - 1]
    IN  F[Len(constants)]

\* The operands of the OpGetLocal and OpSetLocal instructions of ins
local_operands(ins) ==
    {Byte(ins, pos + 1) :
        pos \in {q \in instruction_starts(ins, 0) :
                    Byte(ins, q) \in {OpGetLocal, OpSetLocal}}}

\* C18: in a program compiled from source every compiled function has
\* num_locals >= num_parameters, has as num_parameters the number of
\* parameters of its function literal, and uses local slots below num_locals
\* only.
C18_LocalsAndParameters ==
    Programs[prog].program # <<>>
    => /\ [k \in DOMAIN compiled_functions |-> compiled_functions[k].num_parameters]
              = parameters_in_all(Programs[prog].program[1])
       /\ \A k \in DOMAIN compiled_functions :
            LET f == compiled_functions[k]
            IN  /\ f.num_locals >= f.num_parameters
                /\ \A i \in local_operands(f.instructions) : i < f.num_locals

\* C18 without the count of parameters, for functions that capture nothing
C18_LocalsOfPlainFunctions ==
    (Programs[prog].program # <<>> /\ Programs[prog].program[1] # S_free)
    => \A k \in DOMAIN compiled_functions :
            LET f == compiled_functions[k]
            IN  \A i \in local_operands(f.instructions) : i < f.num_locals

\* The operands of the OpSliceIndex about to execute
slice_left == stack[sp - 3]
slice_start == stack[sp - 2]
slice_stop == stack[sp - 1]
slice_op ==
    /\ at_op(OpSliceIndex) /\ sp >= 3 /\ sp <= STACK_SIZE
    /\ slice_left.t \in {"Array", "String"}
slice_elements == IF slice_left.t = "Array" THEN slice_left.a ELSE slice_left.s
\* The object of the kind of the left operand that holds elements
slice_result(elements) ==
    IF slice_left.t = "Array" THEN Array(elements) ELSE String(elements)
\* A bound as an integer: dflt when it is Null, len added when negative
bound_value(b, dflt, len) ==
    IF b.t = "Null" THEN dflt ELSE IF b.i < 0 THEN b.i + len ELSE b.i
\* v clamped into [0, len]
clamped(v, len) == IF v < 0 THEN 0 ELSE IF v > len THEN len ELSE v
\* OpSliceIndex ends with value on top of the stack in place of its operands
slice_pushes(value) ==
    /\ status' = "running"
    /\ sp' = sp - 2
    /\ stack'[sp - 3] = value
    /\ \A i \in 0..(sp - 4) : stack'[i] = stack[i]

\* C19: OpSliceIndex on an Array or String with Integer-or-Null bounds pushes
\* the elements at [start, stop) after Null start = 0, Null stop = len, len
\* added to a negative bound and both bounds clamped into [0, len] (nothing
\* when start >= stop); any other bound makes run() return an error.
C19_SliceClamped ==
    [][slice_op
       => LET len == Len(slice_elements)
              start == clamped(bound_value(slice_start, 0, len), len)
              stop == clamped(bound_value(slice_stop, len, len), len)
          IN  IF {slice_start.t, slice_stop.t} \subseteq {"Integer", "Null"}
              THEN slice_pushes(slice_result(
                       IF start >= stop THEN <<>>
                       ELSE SubSeq(slice_elements, start + 1, stop)))
              ELSE status' = "error"]_vars

\* C19 with the lower side as the code has it: a bound that is still
\* negative after len is added makes the result empty
C19_SliceAsCoded ==
    [][slice_op
       => LET len == Len(slice_elements)
              start == bound_value(slice_start, 0, len)
              stop == bound_value(slice_stop, len, len)
          IN  IF {slice_start.t, slice_stop.t} \subseteq {"Integer", "Null"}
              THEN slice_pushes(slice_result(
                       IF start < 0 \/ stop < 0 \/ start >= clamped(stop, len)
                       THEN <<>>
                       ELSE SubSeq(slice_elements, start + 1, clamped(stop, len))))
              ELSE status' = "error"]_vars

\* The current table of the compiler before and after the step, and the
\* name that the step resolves
table_before == compiler.symbol_table[Len(compiler.symbol_table)]
table_after == compiler'.symbol_table[Len(compiler.symbol_table)]
resolved_name == prog'[Len(prog')].name
\* What the enclosing chain resolves the name to: the chain after that call
\* and the symbol (an Option)
enclosing ==
    resolve(SubSeq(compiler.symbol_table, 1, Len(compiler.symbol_table) - 1),
            Len(compiler.symbol_table) - 1, resolved_name)
\* The step resolves a name that the current table does not hold and that
\* the enclosing chain resolves to a LOCAL or FREE symbol
captures ==
    /\ identifier_step
    /\ resolved_name \notin DOMAIN table_before.store
    /\ Len(compiler.symbol_table) > 1
    /\ enclosing.symbol # <<>>
    /\ enclosing.symbol[1].scope \in {LOCAL_SCOPE, FREE_SCOPE}

\* C20: such a resolve appends the enclosing symbol to the table's
\* free_symbols and stores and returns a FREE symbol of the same name whose
\* index is that position; a resolve of a name that the table holds changes
\* nothing, so free_symbols keeps the order of the first resolves.
C20_ResolveFree ==
    [][/\ captures
          => LET free == Symbol(resolved_name, FREE_SCOPE,
                                Len(table_before.free_symbols))
             IN  /\ table_after.free_symbols
                      = Append(table_before.free_symbols, enclosing.symbol[1])
                 /\ table_after.free_symbols[free.index + 1].name = resolved_name
                 /\ table_after.store
                      = store_insert(table_before.store, resolved_name, free)
                 /\ table_after.num_definitions = table_before.num_definitions
                 /\ emitted[2] = free.index
       /\ (identifier_step /\ resolved_name \in DOMAIN table_before.store)
          => compiler'.symbol_table = compiler.symbol_table]_vars

\* fn() { let c = 1; let d = 1; fn() { c; d } }: c then d were resolved in
\* the inner function
C20_Witness ==
    /\ Len(compiler.symbol_table) = 3
    /\ compiler.symbol_table[3].free_symbols
         = <<Symbol("c", LOCAL_SCOPE, 0), Symbol("d", LOCAL_SCOPE, 1)>>
    /\ compiler.symbol_table[3].store["c"] = Symbol("c", FREE_SCOPE, 0)
    /\ compiler.symbol_table[3].store["d"] = Symbol("d", FREE_SCOPE, 1)

\* The enclosing chain resolved the name to a FREE symbol of its own
C20_WitnessFree ==
    /\ Len(compiler.symbol_table) = 4
    /\ compiler.symbol_table[4].free_symbols = <<Symbol("c", FREE_SCOPE, 0)>>
    /\ compiler.symbol_table[3].free_symbols = <<Symbol("c", LOCAL_SCOPE, 0)>>

\* The last call on the chain of tables and the symbol it returned
last_call == prog.last
returned == prog.last.symbol[1]

\* C21: the k-th define on a table (from 0) returns index k whatever other
\* calls came in between, with scope GLOBAL on the table without outer and
\* LOCAL on the others; no other call changes num_definitions, and a new
\* table starts at 0.
C21_DefineIndex ==
    /\ last_call.op = "define"
       => /\ returned.index = prog.defines[last_call.lvl] - 1
          /\ returned.scope = IF last_call.lvl = 1 THEN GLOBAL_SCOPE ELSE LOCAL_SCOPE
          /\ returned.name = last_call.name
          /\ compiler.symbol_table[last_call.lvl].store[last_call.name] = returned
    /\ \A k \in DOMAIN compiler.symbol_table :
          compiler.symbol_table[k].num_definitions = prog.defines[k]
    /\ last_call.op = "new"
       => compiler.symbol_table[last_call.lvl].num_definitions = 0

\* The second define on a function's table, with a define_function_name in
\* between
C21_Witness ==
    /\ last_call.op = "define" /\ last_call.lvl = 2 /\ prog.n = 3
    /\ returned = Symbol("c", LOCAL_SCOPE, 1)
    /\ "d" \in DOMAIN compiler.symbol_table[2].store
    /\ compiler.symbol_table[2].store["d"].scope = FUNCTION_SCOPE

\* The step being taken is table.resolve(name) on table call_lvl
resolve_step == prog'.n = prog.n + 1 /\ prog'.last.op = "resolve"
call_lvl == prog'.last.lvl
call_name == prog'.last.name
\* Only the outermost table of the chain up to call_lvl holds the name, as
\* a GLOBAL or BUILTIN symbol
outermost_binding ==
    /\ call_name \in DOMAIN compiler.symbol_table[1].store
    /\ compiler.symbol_table[1].store[call_name].scope
         \in {GLOBAL_SCOPE, BUILTIN_SCOPE}
    /\ \A k \in 2..call_lvl : call_name \notin DOMAIN compiler.symbol_table[k].store

\* C22: resolving, from any depth, a name that only the outermost table
\* binds, as GLOBAL or BUILTIN, returns that symbol as it is and changes no
\* table of the chain.
C22_ResolveOutermost ==
    [][(resolve_step /\ outermost_binding)
       => /\ prog'.last.symbol = <<compiler.symbol_table[1].store[call_name]>>
          /\ compiler'.symbol_table = compiler.symbol_table]_vars

\* The builtin c (index 5) resolved from the fourth table of the chain
C22_Witness ==
    /\ last_call.op = "resolve" /\ last_call.lvl = 4
    /\ last_call.symbol = <<Symbol("c", BUILTIN_SCOPE, 5)>>
    /\ \A k \in 2..4 : /\ DOMAIN compiler.symbol_table[k].store = {}
                       /\ compiler.symbol_table[k].free_symbols = <<>>

\* The step being taken is table.define(name) on table call_lvl while the
\* table binds name as its FUNCTION symbol
define_over_function_name ==
    /\ prog'.n = prog.n + 1 /\ prog'.last.op = "define"
    /\ call_name \in DOMAIN compiler.symbol_table[call_lvl].store
    /\ compiler.symbol_table[call_lvl].store[call_name].scope = FUNCTION_SCOPE
\* The step being taken resolves, on the same table, the name the call
\* before it defined
resolve_after_define ==
    /\ resolve_step /\ last_call.op = "define"
    /\ call_lvl = last_call.lvl /\ call_name = last_call.name

\* C23: define(name) on a table that binds name as its FUNCTION symbol
\* replaces that binding by a GLOBAL or LOCAL symbol whose index is the
\* number of define calls the table had before (0 for its first
\* definition, the function name having taken none); resolve(name) on the
\* table then gives the symbol define returned, and a resolve call right
\* after a define returns that symbol and changes no table.
C23_DefineShadowsFunctionName ==
    [][/\ define_over_function_name
          => /\ prog'.last.symbol[1].scope
                  = IF call_lvl = 1 THEN GLOBAL_SCOPE ELSE LOCAL_SCOPE
             /\ prog'.last.symbol[1].index = prog.defines[call_lvl]
             /\ resolve(SubSeq(compiler'.symbol_table, 1, call_lvl),
                        call_lvl, call_name).symbol = prog'.last.symbol
       /\ resolve_after_define
          => /\ prog'.last.symbol = last_call.symbol
             /\ compiler'.symbol_table = compiler.symbol_table]_vars

\* define(c) as the first definition of a function's table that bound c as
\* its FUNCTION symbol: the LOCAL symbol with index 0 is in the store
C23_Witness ==
    /\ last_call.op = "define" /\ last_call.lvl = 2
    /\ last_call.shadowed = <<Symbol("c", FUNCTION_SCOPE, 0)>>
    /\ last_call.symbol = <<Symbol("c", LOCAL_SCOPE, 0)>>
    /\ compiler.symbol_table[2].store["c"] = Symbol("c", LOCAL_SCOPE, 0)

\* The largest value an operand of the given width holds
max_operand(width) == IF width = 2 THEN 65535 ELSE 255
\* Every operand fits the width the opcode declares for it
operands_fit ==
    \A k \in DOMAIN prog.operands :
        prog.operands[k] <= max_operand(operand_widths(prog.op)[k])
\* The offset in the instruction of operand k: after the opcode byte and
\* the operands before it
operand_offset(k) == 1 + SumSeq(SubSeq(operand_widths(prog.op), 1, k - 1))
\* The value of the width bytes at offset o, first byte most significant
RECURSIVE big_endian(_, _, _)
big_endian(ins, o, width) ==
    IF width = 0 THEN 0
    ELSE Byte(ins, o + width - 1) + 256 * big_endian(ins, o, width - 1)

\* C24: for every opcode and every operand tuple that fits the declared
\* widths, make gives 1 + sum(widths) bytes, the opcode first and each
\* operand big-endian at its offset, and read_operands on the bytes after
\* the opcode returns the operands and sum(widths) as the bytes read.
C24_MakeReadOperands ==
    (prog.read # <<>> /\ operands_fit)
    => /\ Len(prog.made[1]) = 1 + SumSeq(operand_widths(prog.op))
       /\ prog.made[1][1] = prog.op
       /\ \A k \in DOMAIN prog.operands :
             /\ big_endian(prog.made[1], operand_offset(k),
                           operand_widths(prog.op)[k]) = prog.operands[k]
             /\ \A b \in 0..(operand_widths(prog.op)[k] - 1) :
                   Byte(prog.made[1], operand_offset(k) + b) \in 0..255
       /\ prog.read[1].operands = prog.operands
       /\ prog.read[1].offset = SumSeq(operand_widths(prog.op))

\* OpClosure with the largest operands: four bytes made, three read back
C24_Witness ==
    /\ prog.op = OpClosure /\ prog.operands = <<65535, 255>>
    /\ prog.made = <<<<OpClosure, 255, 255, 255>>>>
    /\ prog.read = <<[operands |-> <<65535, 255>>, offset |-> 3]>>

\* OpConstant 65534 is made as 255, 254 and read back
C24_WitnessConstant ==
    /\ prog.op = OpConstant
    /\ prog.made = <<<<OpConstant, 255, 254>>>>
    /\ prog.read = <<[operands |-> <<65534>>, offset |-> 2]>>

\* The program let a = [...]; call; has run to its end
array_call_done(call) == status = "ok" /\ prog.call = call
\* The value of the expression statement
call_value == last_popped
\* obj is the array of the elements of a followed by v
is_a_with_v(obj) ==
    /\ obj.t = "Array" /\ Len(obj.a) = Len(prog.a) + 1
    /\ obj.a[Len(obj.a)] = prog.v
    /\ \A k \in DOMAIN prog.a : obj.a[k] = prog.a[k]
\* obj is the array of the elements of a after its element 0
is_a_without_first(obj) ==
    /\ obj.t = "Array" /\ Len(obj.a) = Len(prog.a) - 1
    /\ \A k \in DOMAIN obj.a : obj.a[k] = prog.a[k + 1]

\* C25: for every array a and value v, len(push(a, v)) is len(a) + 1,
\* last(push(a, v)) is v, push(a, v) is a followed by v, first of a
\* non-empty a is its element 0, rest of a non-empty a is a without its
\* element 0, and after each of the calls the global a holds the array it
\* held before.
C25_ArrayBuiltins ==
    /\ array_call_done("len(push(a, v))") => call_value = Integer(Len(prog.a) + 1)
    /\ array_call_done("last(push(a, v))") => call_value = prog.v
    /\ array_call_done("push(a, v)") => is_a_with_v(call_value)
    /\ (array_call_done("first(a)") /\ prog.a # <<>>) => call_value = prog.a[1]
    /\ (array_call_done("rest(a)") /\ prog.a # <<>>) => is_a_without_first(call_value)
    /\ (array_call_done("rest(a)") /\ Len(prog.a) = 1) => call_value = Array(<<>>)
    /\ (status = "ok" /\ prog.call \in BuiltinCalls)
       => globals[0] = Array(prog.a)

\* last(push([1, 2], 3)) gave 3 and a is still [1, 2]
C25_Witness ==
    /\ array_call_done("last(push(a, v))")
    /\ prog.a = <<Integer(1), Integer(2)>> /\ prog.v = Integer(3)
    /\ call_value = Integer(3)
    /\ globals[0] = Array(<<Integer(1), Integer(2)>>)

\* rest of the one-element array [2] gave the empty array
C25_WitnessRest ==
    /\ array_call_done("rest(a)") /\ prog.a = <<Integer(2)>>
    /\ call_value = Array(<<>>)

\* The line read by the cycle being taken, and the instructions the VM got
cycle_line == ReplLines[prog'[Len(prog')].line]
cycle_instructions == frames'[1].cl.func.instructions
\* The compiler after the reset of the cycle being taken is at top level
at_top_level ==
    /\ compiler'.scopes = <<CompilationScope>>
    /\ compiler'.scope_index = 0
    /\ Len(compiler'.symbol_table) = 1

\* C26: after the reset of every cycle, whether its compile succeeded or
\* failed inside a function body, the compiler has one empty scope,
\* scope_index 0 and the global table as its symbol table, and a cycle
\* that compiles a top-level let emits OpSetGlobal for it.
C26_ResetToTopLevel ==
    [][ReplCycle
       => /\ at_top_level
          /\ (status' = "running" /\ \E n \in {"a", "b"} : is_let(cycle_line, n))
             => Byte(cycle_instructions, 3) = OpSetGlobal]_vars

\* C26, the part that holds: the reset of every cycle leaves one empty scope
\* and scope_index 0, and a cycle whose compile succeeded leaves the symbol
\* table it started with.
C26_ResetScopes ==
    [][ReplCycle
       => /\ compiler'.scopes = <<CompilationScope>>
          /\ compiler'.scope_index = 0
          /\ status' = "running"
             => Len(compiler'.symbol_table) = Len(compiler.symbol_table)]_vars

\* The step being taken is one iteration of the loop of parse_program or
\* of parse_block_statement
loop_iteration ==
    /\ prog.mode = "loop" /\ prog'.mode = "loop"
    /\ cur_token(prog) # (IF top_call(prog) = "Program" THEN "Eof" ELSE "RBrace")
\* The tokens from cur_token to the end of the input
tokens_left(p) == Len(p.tokens) + 1 - p.pos

\* C27: parse_program terminates on every token sequence, the sequences
\* with an if or fn block that is not closed before Eof included: every
\* iteration of its loop and of the loop of parse_block_statement leaves
\* fewer tokens to read, so that the loops end and the error list is
\* finite.
C27_ParserTerminates ==
    [][loop_iteration => tokens_left(prog') < tokens_left(prog)]_vars

\* C27, the part that holds: every iteration of the loop of parse_program
\* leaves fewer tokens to read, and so does every iteration of the loop of
\* parse_block_statement that starts before Eof.
C27_TerminatesBeforeEof ==
    [][(loop_iteration /\ cur_token(prog) # "Eof")
       => tokens_left(prog') < tokens_left(prog)]_vars

\* The step being taken is one iteration of the loop of instructions_string
string_iteration == string_called /\ prog'.made = prog.made /\ prog'.read = prog.read
                    /\ prog' # prog /\ prog'.string # "returned"
\* The byte at the offset of the iteration
string_byte == Byte(disassembled, prog.i)

\* C28: instructions_string terminates on every byte sequence: the offset
\* is larger after every iteration of its loop than before, also when the
\* byte at the offset is not a declared opcode.
C28_StringOffsetIncreases ==
    [][string_iteration => (prog'.i > prog.i \/ prog'.string = "panic")]_vars

\* C28, the part that holds: an iteration at a declared opcode whose
\* operands are all there moves the offset past the instruction.
C28_StringOffsetAtOpcode ==
    [][(string_iteration /\ try_from_ok(string_byte) /\ prog'.string = "loop")
       => prog'.i = prog.i + 1 + SumSeq(operand_widths(string_byte))]_vars

\* Table j binds the name of the resolve call LOCAL and no table from
\* j + 1 to the table of the call binds it
local_origin(j) ==
    /\ j \in 2..(call_lvl - 1)
    /\ call_name \in DOMAIN compiler.symbol_table[j].store
    /\ compiler.symbol_table[j].store[call_name].scope = LOCAL_SCOPE
    /\ \A k \in (j + 1)..call_lvl :
          call_name \notin DOMAIN compiler.symbol_table[k].store
\* Table i, after the call, binds the name as the FREE symbol whose index
\* is the place where original was appended to its free_symbols
captured(i, original) ==
    /\ compiler'.symbol_table[i].free_symbols
         = Append(compiler.symbol_table[i].free_symbols, original)
    /\ call_name \in DOMAIN compiler'.symbol_table[i].store
    /\ compiler'.symbol_table[i].store[call_name]
         = Symbol(call_name, FREE_SCOPE, Len(compiler.symbol_table[i].free_symbols))
\* The table of the resolve call binds the name FREE before the call
bound_free ==
    /\ call_name \in DOMAIN compiler.symbol_table[call_lvl].store
    /\ compiler.symbol_table[call_lvl].store[call_name].scope = FREE_SCOPE

\* C29: a resolve call on table L of a name that table j < L binds LOCAL,
\* with no binding in between, makes every table j + 1 .. L bind the name
\* FREE; table j + 1 appends the LOCAL symbol of j to its free_symbols and
\* each table after it the FREE symbol of the table before it, the call
\* returns the FREE symbol of L and the tables up to j stay as they were.
\* A resolve call on a table that binds the name FREE returns that symbol
\* and changes no table.
C29_TransitiveCapture ==
    [][/\ resolve_step
          => \A j \in DOMAIN compiler.symbol_table :
                local_origin(j)
                => /\ captured(j + 1, compiler.symbol_table[j].store[call_name])
                   /\ \A i \in (j + 2)..call_lvl :
                         captured(i, compiler'.symbol_table[i - 1].store[call_name])
                   /\ prog'.last.symbol
                        = <<compiler'.symbol_table[call_lvl].store[call_name]>>
                   /\ \A k \in 1..j :
                         compiler'.symbol_table[k] = compiler.symbol_table[k]
       /\ (resolve_step /\ bound_free)
          => /\ prog'.last.symbol
                  = <<compiler.symbol_table[call_lvl].store[call_name]>>
             /\ compiler'.symbol_table = compiler.symbol_table]_vars

\* c defined in table 2, resolved from table 4, two levels further in, and
\* then resolved from table 3: tables 3 and 4 hold it FREE, each with one
\* free symbol
C29_Witness ==
    /\ Len(compiler.symbol_table) = 4 /\ prog.n = 3
    /\ last_call.op = "resolve" /\ last_call.lvl = 3
    /\ last_call.symbol = <<Symbol("c", FREE_SCOPE, 0)>>
    /\ compiler.symbol_table[2].store = ("c" :> Symbol("c", LOCAL_SCOPE, 0))
    /\ compiler.symbol_table[3].free_symbols = <<Symbol("c", LOCAL_SCOPE, 0)>>
    /\ compiler.symbol_table[4].free_symbols = <<Symbol("c", FREE_SCOPE, 0)>>
    /\ compiler.symbol_table[4].store = ("c" :> Symbol("c", FREE_SCOPE, 0))

\* The loop body is about to execute OpDiv on two Integers, the divisor
\* (the top of the stack) being 0
div_by_zero ==
    /\ at_op(OpDiv) /\ sp >= 2
    /\ stack[sp - 1] = Integer(0) /\ stack[sp - 2].t = "Integer"

\* C30: OpDiv on two Integers with a zero divisor makes run() return an
\* error to its caller; the VM does not abort.
C30_DivByZeroIsError ==
    [][div_by_zero => status' = "error"]_vars

\* C30 as coded: OpDiv on two Integers with a zero divisor panics, and no
\* instruction after it is executed.
C30_DivByZeroPanics ==
    [][div_by_zero => (status' = "panic" /\ UNCHANGED <<globals, frames_index>>)]_vars
====
